---- MODULE Spec2Model ----
(***************************************************************************)
(* Model of MarkdownImageEmbedder (markdown_image_embedder.py,             *)
(* image_processor.py and move_data_images.py): the reference scanner      *)
(* find_image_links, the resolve/transcode pipeline embed_image_data, the  *)
(* two-pass rewriter process_markdown, the quality model                   *)
(* calculate_jpeg_quality, main, and transform of move_data_images.        *)
(*                                                                         *)
(* A document is a sequence of one-character strings.  Positions stored in *)
(* an ImageMatch are 0-based as in Python; sequence indices are 1-based.   *)
(* Python's None is modelled by the empty sequence where the code only     *)
(* tests truthiness.                                                       *)
(***************************************************************************)
EXTENDS Integers, Sequences, FiniteSets, TLC

\* ------------------------------------------------------------------------
\* Bounds of the model
\* ------------------------------------------------------------------------
MaxPieces == 3
MaxDedupRefs == 4
MaxDelta == 1
MaxCompressedSize == 120
MaxAltLen == 6
MaxFiles == 2

\* ------------------------------------------------------------------------
\* str helpers
\* ------------------------------------------------------------------------
\* characters matched by \s and removed by str.strip()
Whitespace == {" ", "\n", "\t", "\r"}

\* s[p:].startswith(pre), p a 1-based index
StartsWithAt(s, p, pre) ==
    /\ p + Len(pre) - 1 <= Len(s)
    /\ \A k \in 1..Len(pre) : s[p + k - 1] = pre[k]

\* str.startswith
StartsWith(s, pre) == StartsWithAt(s, 1, pre)

\* str.endswith
EndsWith(s, suf) ==
    /\ Len(suf) <= Len(s)
    /\ \A k \in 1..Len(suf) : s[Len(s) - Len(suf) + k] = suf[k]

\* the least element of a non-empty set of integers
Min(S) == CHOOSE q \in S : \A r \in S : q <= r

\* smallest index q >= p with s[q] \in C, Len(s)+1 when there is none
IndexFrom(s, p, C) ==
    IF p > Len(s) THEN Len(s) + 1
    ELSE CHOOSE q \in p..(Len(s) + 1) :
           /\ q = Len(s) + 1 \/ s[q] \in C
           /\ \A r \in p..(q - 1) : s[r] \notin C

\* smallest index q >= p with s[q] \notin C, Len(s)+1 when there is none
IndexNotFrom(s, p, C) ==
    IF p > Len(s) THEN Len(s) + 1
    ELSE CHOOSE q \in p..(Len(s) + 1) :
           /\ q = Len(s) + 1 \/ s[q] \notin C
           /\ \A r \in p..(q - 1) : s[r] \in C

\* largest index q <= p with s[q] \notin C, 0 when there is none
LastNotFrom(s, p, C) ==
    IF \A r \in 1..p : s[r] \in C THEN 0
    ELSE CHOOSE q \in 1..p :
           /\ s[q] \notin C
           /\ \A r \in (q + 1)..p : s[r] \in C

\* str.rstrip(chars)
RStripChars(s, C) == SubSeq(s, 1, LastNotFrom(s, Len(s), C))

\* str.rstrip()
RStrip(s) == RStripChars(s, Whitespace)

\* str.strip()
Strip(s) ==
    LET a == IndexNotFrom(s, 1, Whitespace)
        b == LastNotFrom(s, Len(s), Whitespace)
    IN  IF a > b THEN <<>> ELSE SubSeq(s, a, b)

\* str.replace(c, '') for a one-character c
RECURSIVE RemoveChar(_, _)
RemoveChar(s, c) ==
    IF s = <<>> THEN <<>>
    ELSE IF Head(s) = c THEN RemoveChar(Tail(s), c)
    ELSE <<Head(s)>> \o RemoveChar(Tail(s), c)

\* str.replace(r'\|', '|'): every occurrence, left to right, non-overlapping
RECURSIVE UnescapePipes(_)
UnescapePipes(s) ==
    IF s = <<>> THEN <<>>
    ELSE IF Len(s) >= 2 /\ s[1] = "\\" /\ s[2] = "|"
         THEN <<"|">> \o UnescapePipes(SubSeq(s, 3, Len(s)))
    ELSE <<Head(s)>> \o UnescapePipes(Tail(s))

\* index of the first match of (?<!\\)\| at or after p, 0 when there is none
RECURSIVE UnescapedPipeFrom(_, _)
UnescapedPipeFrom(text, p) ==
    IF p > Len(text) THEN 0
    ELSE IF text[p] = "|" /\ (p = 1 \/ text[p - 1] # "\\") THEN p
    ELSE UnescapedPipeFrom(text, p + 1)

\* split_on_unescaped_pipe: <<before, after>>, after = <<>> stands for None
split_on_unescaped_pipe(text) ==
    LET pos == UnescapedPipeFrom(text, 1)
    IN  IF pos # 0
        THEN <<SubSeq(text, 1, pos - 1), SubSeq(text, pos, Len(text))>>
        ELSE <<text, <<>>>>

\* is_embedded_image
is_embedded_image(url) ==
    \/ StartsWith(url, <<"d", "a", "t", "a", ":", "i", "m", "a", "g", "e", "/">>)
    \/ StartsWith(url, <<"d", "a", "t", "a", ":", "i", "m", "a", "g", "e", "%", "2", "F">>)

\* url.startswith("data:image") of find_image_links
StartsWithDataImage(url) ==
    StartsWith(url, <<"d", "a", "t", "a", ":", "i", "m", "a", "g", "e">>)

\* url.startswith(("http://", "https://"))
IsHttp(url) ==
    \/ StartsWith(url, <<"h", "t", "t", "p", ":", "/", "/">>)
    \/ StartsWith(url, <<"h", "t", "t", "p", "s", ":", "/", "/">>)

\* f"{n}" for a natural number n
RECURSIVE IntToStr(_)
IntToStr(n) ==
    LET digits == <<"0", "1", "2", "3", "4", "5", "6", "7", "8", "9">>
    IN  IF n < 10 THEN <<digits[n + 1]>>
        ELSE IntToStr(n \div 10) \o <<digits[(n % 10) + 1]>>

\* ------------------------------------------------------------------------
\* find_image_links
\* ------------------------------------------------------------------------
\* the dataclass ImageMatch
ImageMatch(original_text, alt_text, url, position, length, ref_id, style) ==
    [original_text |-> original_text, alt_text |-> alt_text, url |-> url,
     position |-> position, length |-> length, ref_id |-> ref_id,
     style |-> style]

\* end of the lazy body of !\[\[(?P<url>.*?)\]\]: the first index q >= p with
\* "]]" at q and no newline at or before q; 0 when the pattern cannot match
ObsidianClose(markdown, p) ==
    LET stop == IndexFrom(markdown, p, {"\n"})
        shut == {q \in p..(stop - 2) : markdown[q] = "]" /\ markdown[q + 1] = "]"}
    IN  IF shut = {} THEN 0 ELSE Min(shut)

\* the indices at which obsidian_pattern matches
ObsidianStarts(markdown) ==
    {p \in 1..Len(markdown) :
       /\ StartsWithAt(markdown, p, <<"!", "[", "[">>)
       /\ ObsidianClose(markdown, p + 3) # 0}

\* obsidian_pattern.finditer(markdown) from index p, as ImageMatch records;
\* starts is ObsidianStarts(markdown)
RECURSIVE ObsidianMatches(_, _, _)
ObsidianMatches(markdown, starts, from) ==
    IF {p \in starts : p >= from} = {} THEN <<>>
    ELSE LET p == Min({r \in starts : r >= from})
             q == ObsidianClose(markdown, p + 3)
         IN  <<ImageMatch(SubSeq(markdown, p, q + 1), <<>>,
                          SubSeq(markdown, p + 3, q - 1),
                          p - 1, q + 2 - p, <<>>, "obsidian")>>
             \o ObsidianMatches(markdown, starts, q + 2)

\* end (exclusive) of a match of ^\[(?P<id>[^\]]+)\]:\s+(?P<url>\S+) that
\* starts at index p; 0 when the pattern does not match at p
RefDefEnd(markdown, p) ==
    IF ~ (p = 1 \/ markdown[p - 1] = "\n") \/ markdown[p] # "[" THEN 0
    ELSE LET a == IndexFrom(markdown, p + 1, {"]"})
             w == IndexNotFrom(markdown, a + 2, Whitespace)
         IN  IF a = p + 1 \/ a + 1 > Len(markdown) \/ markdown[a + 1] # ":"
                THEN 0
             ELSE IF w = a + 2 \/ w > Len(markdown) THEN 0
             ELSE IndexFrom(markdown, w, Whitespace)

\* the indices at which ref_def_pattern matches
RefDefStarts(markdown) ==
    {p \in 1..Len(markdown) : RefDefEnd(markdown, p) # 0}

\* ref_def_pattern.finditer(markdown) from index p, as <<id, url>> pairs in
\* document order (the loop assigns ref_defs[id] = url in this order);
\* starts is RefDefStarts(markdown)
RECURSIVE RefDefs(_, _, _)
RefDefs(markdown, starts, from) ==
    IF {p \in starts : p >= from} = {} THEN <<>>
    ELSE LET p == Min({r \in starts : r >= from})
             a == IndexFrom(markdown, p + 1, {"]"})
             w == IndexNotFrom(markdown, a + 2, Whitespace)
             e == RefDefEnd(markdown, p)
         IN  <<<<SubSeq(markdown, p + 1, a - 1),
                 Strip(SubSeq(markdown, w, e - 1))>>>>
             \o RefDefs(markdown, starts, e)

\* ref_defs.get(ref_id): the last assignment wins, <<>> stands for None
RECURSIVE RefDefsGet(_, _)
RefDefsGet(defs, ref_id) ==
    IF defs = <<>> THEN <<>>
    ELSE IF defs[Len(defs)][1] = ref_id THEN defs[Len(defs)][2]
    ELSE RefDefsGet(SubSeq(defs, 1, Len(defs) - 1), ref_id)

\* index of the closing ")" of a match of
\* !\[(?P<alt>[^\]]*)\]\((?P<url>[^)\n]+)\) starting at p; 0 when no match
InlineEnd(markdown, p) ==
    IF ~ StartsWithAt(markdown, p, <<"!", "[">>) THEN 0
    ELSE LET a == IndexFrom(markdown, p + 2, {"]"})
             e == IndexFrom(markdown, a + 2, {")", "\n"})
         IN  IF a + 1 > Len(markdown) \/ markdown[a + 1] # "(" THEN 0
             ELSE IF e = a + 2 \/ e > Len(markdown) \/ markdown[e] # ")" THEN 0
             ELSE e

\* the indices at which inline_pattern matches
InlineStarts(markdown) ==
    {p \in 1..Len(markdown) : InlineEnd(markdown, p) # 0}

\* inline_pattern.finditer(markdown) from index p; matches whose stripped url
\* starts with "data:image" are consumed but not appended; starts is
\* InlineStarts(markdown)
RECURSIVE InlineMatches(_, _, _)
InlineMatches(markdown, starts, from) ==
    IF {p \in starts : p >= from} = {} THEN <<>>
    ELSE LET p == Min({r \in starts : r >= from})
             a == IndexFrom(markdown, p + 2, {"]"})
             e == InlineEnd(markdown, p)
             url == Strip(SubSeq(markdown, a + 2, e - 1))
         IN  (IF StartsWithDataImage(url) THEN <<>>
              ELSE <<ImageMatch(SubSeq(markdown, p, e),
                                SubSeq(markdown, p + 2, a - 1), url,
                                p - 1, e + 1 - p, <<>>, "inline")>>)
             \o InlineMatches(markdown, starts, e + 1)

\* index of the closing "]" of a match of
\* !\[(?P<alt>[^\]]*)\]\[(?P<ref>[^\]]+)\] starting at p; 0 when no match
RefImageEnd(markdown, p) ==
    IF ~ StartsWithAt(markdown, p, <<"!", "[">>) THEN 0
    ELSE LET a == IndexFrom(markdown, p + 2, {"]"})
             b == IndexFrom(markdown, a + 2, {"]"})
         IN  IF a + 1 > Len(markdown) \/ markdown[a + 1] # "[" THEN 0
             ELSE IF b = a + 2 \/ b > Len(markdown) THEN 0
             ELSE b

\* the indices at which ref_image_pattern matches
RefImageStarts(markdown) ==
    {p \in 1..Len(markdown) : RefImageEnd(markdown, p) # 0}

\* ref_image_pattern.finditer(markdown) from index p; unresolved labels and
\* labels defined as "data:image..." are consumed but not appended; starts is
\* RefImageStarts(markdown)
RECURSIVE RefImageMatches(_, _, _, _)
RefImageMatches(markdown, ref_defs, starts, from) ==
    IF {p \in starts : p >= from} = {} THEN <<>>
    ELSE LET p == Min({r \in starts : r >= from})
             a == IndexFrom(markdown, p + 2, {"]"})
             b == RefImageEnd(markdown, p)
             ref_id == SubSeq(markdown, a + 2, b - 1)
             url == Strip(RefDefsGet(ref_defs, ref_id))
         IN  (IF url = <<>> \/ StartsWithDataImage(url) THEN <<>>
              ELSE <<ImageMatch(SubSeq(markdown, p, b),
                                SubSeq(markdown, p + 2, a - 1), url,
                                p - 1, b + 1 - p, ref_id, "reference")>>)
             \o RefImageMatches(markdown, ref_defs, starts, b + 1)

\* list.sort(key=lambda m: m.position): stable insertion of m into a sorted list
RECURSIVE InsertByPosition(_, _)
InsertByPosition(sorted, m) ==
    IF sorted = <<>> THEN <<m>>
    ELSE IF sorted[Len(sorted)].position <= m.position THEN Append(sorted, m)
    ELSE Append(InsertByPosition(SubSeq(sorted, 1, Len(sorted) - 1), m),
                sorted[Len(sorted)])

\* matches.sort(key=lambda m: m.position)
RECURSIVE SortByPosition(_)
SortByPosition(ms) ==
    IF ms = <<>> THEN <<>>
    ELSE InsertByPosition(SortByPosition(SubSeq(ms, 1, Len(ms) - 1)),
                          ms[Len(ms)])

\* find_image_links
find_image_links(markdown) ==
    LET ref_defs == RefDefs(markdown, RefDefStarts(markdown), 1)
    IN  SortByPosition(ObsidianMatches(markdown, ObsidianStarts(markdown), 1)
                       \o InlineMatches(markdown, InlineStarts(markdown), 1)
                       \o RefImageMatches(markdown, ref_defs,
                                          RefImageStarts(markdown), 1))

\* ------------------------------------------------------------------------
\* Quality model
\* ------------------------------------------------------------------------
SIZE_1KB == 1 * 1024
SIZE_5KB == 5 * 1024
SIZE_20KB == 20 * 1024
SIZE_50KB == 50 * 1024
SIZE_100KB == 100 * 1024
SIZE_200KB == 200 * 1024

\* quality_table with a mistyped entry in the <=50KB row
quality_table_mistyped ==
    << <<100, 100, 100, 100, 100, 100, 100, 100, 100>>,
       <<30, 45, 60, 75, 90, 92, 94, 96, 98>>,
       <<25, 37, 49, 60, 70, 77, 83, 89, 95>>,
       <<20, 28, 36, 43, 30, 60, 70, 80, 90>>,
       <<15, 22, 28, 34, 40, 52, 63, 74, 85>>,
       <<12, 16, 19, 22, 25, 40, 53, 67, 80>>,
       <<10, 12, 14, 16, 18, 33, 47, 61, 75>> >>

\* quality_table of calculate_jpeg_quality (rows: size band, columns: scale)
quality_table ==
    << <<100, 100, 100, 100, 100, 100, 100, 100, 100>>,
       <<30, 45, 60, 75, 90, 92, 94, 96, 98>>,
       <<25, 37, 49, 60, 70, 77, 83, 89, 95>>,
       <<20, 28, 36, 43, 50, 60, 70, 80, 90>>,
       <<15, 22, 28, 34, 40, 52, 63, 74, 85>>,
       <<12, 16, 19, 22, 25, 40, 53, 67, 80>>,
       <<10, 12, 14, 16, 18, 33, 47, 61, 75>> >>

\* row_index with exclusive upper bounds
row_index_exclusive(file_size_bytes) ==
    IF file_size_bytes < SIZE_1KB THEN 0
    ELSE IF file_size_bytes < SIZE_5KB THEN 1
    ELSE IF file_size_bytes < SIZE_20KB THEN 2
    ELSE IF file_size_bytes < SIZE_50KB THEN 3
    ELSE IF file_size_bytes < SIZE_100KB THEN 4
    ELSE IF file_size_bytes < SIZE_200KB THEN 5
    ELSE 6

\* row_index of calculate_jpeg_quality, 0-based as in the code
row_index(file_size_bytes) ==
    IF file_size_bytes <= SIZE_1KB THEN 0
    ELSE IF file_size_bytes <= SIZE_5KB THEN 1
    ELSE IF file_size_bytes <= SIZE_20KB THEN 2
    ELSE IF file_size_bytes <= SIZE_50KB THEN 3
    ELSE IF file_size_bytes <= SIZE_100KB THEN 4
    ELSE IF file_size_bytes <= SIZE_200KB THEN 5
    ELSE 6

\* calculate_jpeg_quality (module function), quality_scale in 1..9
calculate_jpeg_quality(file_size_bytes, quality_scale) ==
    quality_table[row_index(file_size_bytes) + 1][(quality_scale - 1) + 1]

\* quality_table of ImageProcessor.calculate_jpeg_quality
ip_quality_table ==
    << <<100, 100, 100, 100, 100, 100, 100, 100, 100>>,
       <<30, 45, 60, 75, 90, 92, 94, 96, 98>>,
       <<25, 37, 49, 60, 70, 77, 83, 89, 95>>,
       <<20, 28, 36, 43, 50, 60, 70, 80, 90>>,
       <<15, 22, 28, 34, 40, 52, 63, 74, 85>>,
       <<12, 16, 19, 22, 25, 40, 53, 67, 80>>,
       <<10, 12, 14, 16, 18, 33, 47, 61, 75>> >>

\* ImageProcessor.__init__: the quality scale kept by the object
ImageProcessor_quality_scale(quality_scale) ==
    IF quality_scale < 1 \/ quality_scale > 9 THEN 5 ELSE quality_scale

\* row_index of ImageProcessor.calculate_jpeg_quality
ip_row_index(file_size_bytes) ==
    IF file_size_bytes <= 1 * 1024 THEN 0
    ELSE IF file_size_bytes <= 5 * 1024 THEN 1
    ELSE IF file_size_bytes <= 20 * 1024 THEN 2
    ELSE IF file_size_bytes <= 50 * 1024 THEN 3
    ELSE IF file_size_bytes <= 100 * 1024 THEN 4
    ELSE IF file_size_bytes <= 200 * 1024 THEN 5
    ELSE 6

\* ImageProcessor(quality_scale).calculate_jpeg_quality(file_size_bytes)
ImageProcessor_calculate_jpeg_quality(file_size_bytes, quality_scale) ==
    ip_quality_table[ip_row_index(file_size_bytes) + 1]
                    [(ImageProcessor_quality_scale(quality_scale) - 1) + 1]

\* ------------------------------------------------------------------------
\* Environment: file system, network and image codec
\* ------------------------------------------------------------------------
\* A resource (a local path or a remote address) is absent, present but
\* unreadable, or holds data.  The data carries what the pipeline observes:
\* its length, whether it starts with a video signature, whether the codec
\* decodes it, the length of its JPEG encoding and the base64 texts of the
\* raw bytes and of the JPEG encoding.
Absent == [status |-> "absent"]
Unreadable == [status |-> "unreadable"]
Holds(data) == [status |-> "ok", data |-> data]

VideoData == [len |-> 4096, video |-> TRUE, image |-> FALSE,
              jpeg_len |-> 0, b64 |-> <<"A", "A", "A", "B", "u", "g">>, jpeg_b64 |-> <<>>]
GarbageData == [len |-> 4096, video |-> FALSE, image |-> FALSE,
                jpeg_len |-> 0, b64 |-> <<"Z", "2", "F", "y">>, jpeg_b64 |-> <<>>]
HugeData == [len |-> 12000000, video |-> FALSE, image |-> TRUE,
             jpeg_len |-> 8000000, b64 |-> <<"i", "V", "B", "H">>, jpeg_b64 |-> <<"/", "9", "j", "H">>]
PictureData == [len |-> 51200, video |-> FALSE, image |-> TRUE,
                jpeg_len |-> 20000, b64 |-> <<"i", "V", "B", "P">>, jpeg_b64 |-> <<"/", "9", "j", "P">>]
TinyData == [len |-> 800, video |-> FALSE, image |-> TRUE,
             jpeg_len |-> 700, b64 |-> <<"i", "V", "B", "T">>, jpeg_b64 |-> <<"/", "9", "j", "T">>]

\* bytes shorter than 12 that start with a video signature such as FLV
ShortVideoData == [len |-> 9, video |-> TRUE, image |-> FALSE,
                   jpeg_len |-> 0, b64 |-> <<"R", "k", "x", "W">>, jpeg_b64 |-> <<>>]
\* undecodable bytes of at most 1024 bytes
ShortGarbageData == [len |-> 500, video |-> FALSE, image |-> FALSE,
                     jpeg_len |-> 0, b64 |-> <<"Z", "2", "E", "=">>, jpeg_b64 |-> <<>>]

\* contents of at most 1024 bytes, and a video of ordinary length
SmallCorpus == {ShortVideoData, ShortGarbageData, TinyData, VideoData}

\* the contents files and responses hold in a run of the general model
StandardCorpus == {VideoData, GarbageData, HugeData, PictureData, TinyData}

\* what a local path can be when the contents come from corpus c
FileOutcomes(c) == {Absent, Unreadable} \cup {Holds(d) : d \in c}
\* what a GET of a remote address can give (absent: non-200 or transport error)
HttpOutcomes(c) == {Absent} \cup {Holds(d) : d \in c}

\* the outcomes the environment can give for resource r (no file has the
\* empty path)
OutcomesOf(c, r) ==
    IF r = <<>> THEN {Absent}
    ELSE IF IsHttp(r) THEN HttpOutcomes(c)
    ELSE FileOutcomes(c)

\* os.path.isfile(path) in world w
isfile(w, path) == w[path].status # "absent"

\* download_image(url) in world w: the response when the status is 200,
\* Absent (None) for any other status or a transport error
download_image(w, url) ==
    IF w[url].status = "ok" THEN w[url] ELSE Absent

\* the in operator of str: sub occurs in s
Contains(s, sub) == \E p \in 1..Len(s) : StartsWithAt(s, p, sub)

\* largest index q <= p with s[q] = c, 0 when there is none (str.rfind + 1)
RFind(s, p, c) ==
    IF \A r \in 1..p : s[r] # c THEN 0
    ELSE CHOOSE q \in 1..p : s[q] = c /\ \A r \in (q + 1)..p : s[r] # c

\* str.lower() on the letters of the alphabet
LowerChar(c) ==
    LET upper == <<"A", "B", "C", "D", "E", "F", "G", "H", "I", "J", "K", "L", "M", "N", "O", "P", "Q", "R", "S", "T", "U", "V", "W", "X", "Y", "Z">>
        lower == <<"a", "b", "c", "d", "e", "f", "g", "h", "i", "j", "k", "l", "m", "n", "o", "p", "q", "r", "s", "t", "u", "v", "w", "x", "y", "z">>
    IN  IF \E k \in 1..26 : upper[k] = c
        THEN lower[CHOOSE k \in 1..26 : upper[k] = c]
        ELSE c
Lower(s) == [k \in 1..Len(s) |-> LowerChar(s[k])]

\* os.path.splitext(url)[1]: the extension starts at the last dot of the last
\* path component, leading dots of the component do not count
SplitextExt(url) ==
    LET sepIndex == RFind(url, Len(url), "/")
        dotIndex == RFind(url, Len(url), ".")
    IN  IF dotIndex > sepIndex
           /\ \E k \in (sepIndex + 1)..(dotIndex - 1) : url[k] # "."
        THEN SubSeq(url, dotIndex, Len(url))
        ELSE <<>>

\* mimetypes.guess_type(url)[0] for the extensions get_mime_type does not
\* list itself; <<>> stands for None
guess_type(ext) ==
    IF ext \in {<<".", "t", "i", "f">>, <<".", "t", "i", "f", "f">>} THEN <<"i", "m", "a", "g", "e", "/", "t", "i", "f", "f">>
    ELSE IF ext = <<".", "i", "c", "o">> THEN <<"i", "m", "a", "g", "e", "/", "v", "n", "d", ".", "m", "i", "c", "r", "o", "s", "o", "f", "t", ".", "i", "c", "o", "n">>
    ELSE IF ext = <<".", "t", "x", "t">> THEN <<"t", "e", "x", "t", "/", "p", "l", "a", "i", "n">>
    ELSE <<>>

\* get_mime_type
get_mime_type(url) ==
    LET ext == Lower(SplitextExt(url))
        mime_type == guess_type(ext)
    IN  IF ext = <<>> THEN <<"i", "m", "a", "g", "e", "/", "j", "p", "e", "g">>
        ELSE IF ext \in {<<".", "j", "p", "g">>, <<".", "j", "p", "e", "g">>} THEN <<"i", "m", "a", "g", "e", "/", "j", "p", "e", "g">>
        ELSE IF ext = <<".", "p", "n", "g">> THEN <<"i", "m", "a", "g", "e", "/", "p", "n", "g">>
        ELSE IF ext = <<".", "g", "i", "f">> THEN <<"i", "m", "a", "g", "e", "/", "g", "i", "f">>
        ELSE IF ext = <<".", "b", "m", "p">> THEN <<"i", "m", "a", "g", "e", "/", "b", "m", "p">>
        ELSE IF ext = <<".", "w", "e", "b", "p">> THEN <<"i", "m", "a", "g", "e", "/", "w", "e", "b", "p">>
        ELSE IF ext = <<".", "s", "v", "g">> THEN <<"i", "m", "a", "g", "e", "/", "s", "v", "g", "+", "x", "m", "l">>
        ELSE IF mime_type # <<>> /\ StartsWith(mime_type, <<"i", "m", "a", "g", "e", "/">>)
             THEN mime_type
        ELSE <<"i", "m", "a", "g", "e", "/", "j", "p", "e", "g">>

\* is_video_file: the data record says whether the bytes are at least 12 long
\* and carry one of the listed signatures
is_video_file(data) == data.len >= 12 /\ data.video

\* urllib.parse.unquote for the escapes of the alphabet
RECURSIVE unquote(_)
unquote(s) ==
    IF s = <<>> THEN <<>>
    ELSE IF StartsWith(s, <<"%", "2", "0">>) THEN <<" ">> \o unquote(SubSeq(s, 4, Len(s)))
    ELSE IF StartsWith(s, <<"%", "2", "5">>) THEN <<"%">> \o unquote(SubSeq(s, 4, Len(s)))
    ELSE IF StartsWith(s, <<"%", "2", "F">>) \/ StartsWith(s, <<"%", "2", "f">>)
         THEN <<"/">> \o unquote(SubSeq(s, 4, Len(s)))
    ELSE <<Head(s)>> \o unquote(Tail(s))

\* the characters of path.rstrip('/\\"\' \t\r\n')
PathTrailers == {"/", "\\", "\"", "'", " ", "\t", "\r", "\n"}

\* os.path.join(base, rel) for a base without a trailing separator
path_join(base, rel) ==
    IF StartsWith(rel, <<"/">>) THEN rel
    ELSE IF base = <<>> \/ EndsWith(base, <<"/">>) THEN base \o rel
    ELSE base \o <<"/">> \o rel

\* clean_path of resolve_file_path after URL decoding
ResolveCleanPath(path) == unquote(RStripChars(path, PathTrailers))

\* full_path of resolve_file_path
ResolveFullPath(path, base_path) ==
    LET clean_path == ResolveCleanPath(path)
        relative_path == IF StartsWith(clean_path, <<".", "/">>)
                         THEN SubSeq(clean_path, 3, Len(clean_path))
                         ELSE clean_path
    IN  path_join(RStripChars(base_path, PathTrailers), relative_path)

\* a resolver that tries the base path first
resolve_file_path_base_first(w, path, base_path) ==
    IF base_path # <<>> /\ isfile(w, ResolveFullPath(path, base_path))
    THEN ResolveFullPath(path, base_path)
    ELSE IF isfile(w, ResolveCleanPath(path)) THEN ResolveCleanPath(path)
    ELSE <<>>

\* resolve_file_path in world w; <<>> is the "" the code returns on failure
resolve_file_path(w, path, base_path) ==
    IF isfile(w, ResolveCleanPath(path)) THEN ResolveCleanPath(path)
    ELSE IF base_path # <<>> /\ isfile(w, ResolveFullPath(path, base_path))
         THEN ResolveFullPath(path, base_path)
    ELSE <<>>

\* an encoding without padding: one character per six bits
B64Len_unpadded(n) == (8 * n + 5) \div 6

\* len(base64.b64encode(data)) for len(data) = n: four characters for every
\* three bytes, and four more, padding included, for a rest of one or two
B64Len(n) == 4 * (n \div 3) + (IF n % 3 = 0 THEN 0 ELSE 4)

MARKDOWN_IMAGE_OVERHEAD == 100

\* a fast path that does not look at the requested dimensions
FastPath_unsized(jpeg_quality, original_size, max_width, max_height) ==
    jpeg_quality = 100 /\ original_size <= 1024

\* if jpeg_quality == 100 and original_size <= 1024 and not max_width and not
\* max_height (0 stands for a dimension that is not set)
FastPath(jpeg_quality, original_size, max_width, max_height) ==
    /\ jpeg_quality = 100
    /\ original_size <= 1024
    /\ max_width = 0
    /\ max_height = 0

\* compress_to_jpeg: [compressed_data, jpeg_quality, original_size,
\* compressed_size]; compressed_data.none stands for None.  The pixels do not
\* occur in the model: decoding succeeds iff input_data.image, and the JPEG
\* encoding (after any resize and alpha flattening) has length
\* input_data.jpeg_len and base64 text input_data.jpeg_b64.
compress_to_jpeg(input_data, quality_scale, url, max_width, max_height, svg) ==
    LET original_size == input_data.len
        jpeg_quality == calculate_jpeg_quality(original_size, quality_scale)
        failed == [compressed_data |-> [none |-> TRUE, len |-> 0, b64 |-> <<>>],
                   jpeg_quality |-> 0, original_size |-> original_size,
                   compressed_size |-> 0]
    IN  IF FastPath(jpeg_quality, original_size, max_width, max_height)
        THEN [compressed_data |-> [none |-> FALSE, len |-> original_size,
                                   b64 |-> input_data.b64],
              jpeg_quality |-> jpeg_quality, original_size |-> original_size,
              compressed_size |-> original_size]
        ELSE IF EndsWith(Lower(url), <<".", "s", "v", "g">>) /\ ~ svg THEN failed
        ELSE IF ~ input_data.image THEN failed
        ELSE [compressed_data |-> [none |-> FALSE, len |-> input_data.jpeg_len,
                                   b64 |-> input_data.jpeg_b64],
              jpeg_quality |-> jpeg_quality, original_size |-> original_size,
              compressed_size |-> input_data.jpeg_len]

\* the source embed_image_data works on: match.url without the dimension
\* suffix after an unescaped pipe, stripped
CleanedSource(match_url) == Strip(split_on_unescaped_pipe(match_url)[1])

\* the Yarle branch of embed_image_data applies to url
IsYarleResource(url, options) ==
    /\ options.yarle_mode
    /\ ~ IsHttp(url)
    /\ (Contains(url, <<".", "/", "_", "r", "e", "s", "o", "u", "r", "c", "e", "s", "/">>) \/ Contains(url, <<".", "r", "e", "s", "o", "u", "r", "c", "e", "s", "/">>))

\* the resources embed_image_data may look at for match_url
Queries(match_url, options) ==
    LET url == CleanedSource(match_url)
    IN  IF is_embedded_image(url) THEN {}
        ELSE IF IsHttp(url) THEN {url}
        ELSE {url, ResolveCleanPath(url)}
             \cup (IF options.base_path # <<>>
                   THEN {ResolveFullPath(url, options.base_path)} ELSE {})

\* final_size = len(base64_data) + MARKDOWN_IMAGE_OVERHEAD
FinalSize(compressed_len) == B64Len(compressed_len) + MARKDOWN_IMAGE_OVERHEAD

\* max_file_size_bytes = options.max_file_size_mb * 1024 * 1024
MaxFileSizeBytes(options) == options.max_file_size_mb * 1024 * 1024

\* a guard that also rejects a footprint equal to the budget
ExceedsBudget_inclusive(final_size, max_file_size_bytes) ==
    final_size >= max_file_size_bytes

\* if final_size > max_file_size_bytes
ExceedsBudget(final_size, max_file_size_bytes) ==
    final_size > max_file_size_bytes

\* the largest compressed length whose final_size is within the budget
LargestFitting(options) ==
    3 * ((MaxFileSizeBytes(options) - MARKDOWN_IMAGE_OVERHEAD) \div 4)

\* a decodable image of len bytes whose JPEG encoding has jpeg_len bytes; the
\* base64 texts are told apart by tag
Picture(len, jpeg_len, tag) ==
    [len |-> len, video |-> FALSE, image |-> TRUE, jpeg_len |-> jpeg_len,
     b64 |-> <<"i", "V", "B">> \o tag, jpeg_b64 |-> <<"/", "9", "j">> \o tag]

\* images whose JPEG encoding is at most MaxDelta bytes away from the largest
\* that fits: one from a source larger than the budget for every distance, and
\* one just over the budget from a source far below it
BudgetCorpus(options) ==
    {Picture(12000000, LargestFitting(options) + d, IntToStr(d + MaxDelta)) :
       d \in (0 - MaxDelta)..MaxDelta}
    \cup {Picture(2000, LargestFitting(options) + 1, <<"s">>)}

\* a failure path that does not record the resource
RecordNonEmbedded_dropped(stats, url) == stats

\* stats["non_embedded_resources"].add(url)
RecordNonEmbedded(stats, url) ==
    [stats EXCEPT !.non_embedded_resources = @ \cup {url}]

\* the part of embed_image_data after the bytes were obtained (video check,
\* MIME type, transcoding, statistics, size guard, data URL)
EmbedFetched(url, image_data, options, stats, svg, fetched) ==
    LET failed == [data_url |-> <<>>,
                   stats |-> RecordNonEmbedded(stats, url),
                   fetched |-> fetched]
        mime_type == get_mime_type(url)
        c == compress_to_jpeg(image_data, options.quality_scale, url,
                              options.max_width, options.max_height, svg)
        final_size == FinalSize(c.compressed_data.len)
        max_file_size_bytes == MaxFileSizeBytes(options)
        counted == [stats EXCEPT
                      !.total_image_size = @ + c.original_size,
                      !.total_compressed_size = @ + c.compressed_size]
    IN  IF is_video_file(image_data) THEN failed
        ELSE IF mime_type = <<>> THEN failed
        ELSE IF c.compressed_data.none \/ c.compressed_data.len = 0 THEN failed
        ELSE IF ExceedsBudget(final_size, max_file_size_bytes)
             THEN [data_url |-> <<>>,
                   stats |-> RecordNonEmbedded(counted, url),
                   fetched |-> fetched]
        ELSE [data_url |-> <<"d", "a", "t", "a", ":">> \o mime_type \o <<";", "b", "a", "s", "e", "6", "4", ",">>
                           \o c.compressed_data.b64,
              stats |-> counted, fetched |-> fetched]

\* embed_image_data in world w: [data_url, stats, fetched] where data_url = <<>>
\* stands for None, stats is the updated statistics record and fetched lists
\* the resources that were opened or downloaded
embed_image_data(match, options, stats, w, svg) ==
    LET url0 == CleanedSource(match.url)
        yarle_path == IF IsYarleResource(url0, options)
                      THEN resolve_file_path(w, url0, options.base_path)
                      ELSE <<>>
        url == IF yarle_path # <<>> THEN yarle_path ELSE url0
        resolved_path == IF isfile(w, url) THEN url
                         ELSE resolve_file_path(w, url, options.base_path)
        failed(u, fetched) ==
            [data_url |-> <<>>,
             stats |-> RecordNonEmbedded(stats, u),
             fetched |-> fetched]
    IN  IF is_embedded_image(url0)
        THEN [data_url |-> <<>>, stats |-> stats, fetched |-> <<>>]
        ELSE IF ~ IsHttp(url)
             THEN IF resolved_path = <<>> THEN failed(url, <<>>)
                  ELSE IF w[resolved_path].status # "ok"
                       THEN failed(resolved_path, <<resolved_path>>)
                  ELSE EmbedFetched(resolved_path, w[resolved_path].data,
                                    options, stats, svg, <<resolved_path>>)
        ELSE IF download_image(w, url).status # "ok"
                \/ download_image(w, url).data.len = 0
             THEN failed(url, <<url>>)
        ELSE EmbedFetched(url, download_image(w, url).data, options, stats,
                          svg, <<url>>)


\* ------------------------------------------------------------------------
\* process_markdown
\* ------------------------------------------------------------------------
\* a key on the matched text instead of the label or the url
CanonicalKey_by_text(match) == <<"url", match.original_text>>

\* the canonical key process_markdown computes for a match (both passes)
CanonicalKey(match) ==
    IF match.style = "reference" /\ match.ref_id # <<>>
    THEN <<"ref", match.ref_id>>
    ELSE <<"url", match.url>>

\* an id that does not depend on the counter
EmbeddedId_fixed(img_counter) == <<"m", "i", "e", "-", "i", "m", "g", "-", "1">>

\* f"mie-img-{img_counter}"
EmbeddedId(img_counter) == <<"m", "i", "e", "-", "i", "m", "g", "-">> \o IntToStr(img_counter)

\* an alt text that is copied as it was scanned
DisplayAlt_verbatim(alt_text) == alt_text

\* display_alt = f"{alt_main}{dimensions}" of the second pass
DisplayAlt(alt_text) ==
    LET parts == split_on_unescaped_pipe(alt_text)
        alt_main == RemoveChar(parts[1], "\\")
        dimensions == IF parts[2] # <<>> THEN UnescapePipes(parts[2]) ELSE <<>>
    IN  alt_main \o dimensions

\* the text the second pass appends for a match: the original text when the
\* key has no embedded id, else ![display_alt][embedded_id]
Substitution(match, key_to_id) ==
    LET key == CanonicalKey(match)
    IN  IF key \notin DOMAIN key_to_id THEN match.original_text
        ELSE <<"!", "[">> \o DisplayAlt(match.alt_text) \o <<"]", "[">>
             \o key_to_id[key] \o <<"]">>

\* the second-pass loop over matches[1..k]: the text built so far, last_pos
\* and the text appended for each match
RECURSIVE SecondPass(_, _, _, _)
SecondPass(md, ms, key_to_id, k) ==
    IF k = 0 THEN [text |-> <<>>, last_pos |-> 0, emitted |-> <<>>]
    ELSE LET prev == SecondPass(md, ms, key_to_id, k - 1)
             match == ms[k]
             gap == IF match.position > prev.last_pos
                    THEN SubSeq(md, prev.last_pos + 1, match.position)
                    ELSE <<>>
             piece == Substitution(match, key_to_id)
         IN  [text |-> prev.text \o gap \o piece,
              last_pos |-> match.position + match.length,
              emitted |-> Append(prev.emitted, piece)]

\* body = ''.join(result_parts) after the tail was appended
RebuiltBody(md, ms, key_to_id) ==
    LET pass == SecondPass(md, ms, key_to_id, Len(ms))
    IN  IF pass.last_pos < Len(md)
        THEN pass.text \o SubSeq(md, pass.last_pos + 1, Len(md))
        ELSE pass.text

MarkerLine == <<"<", "!", "-", "-", " ", "E", "m", "b", "e", "d", "d", "e", "d", " ", "i", "m", "a", "g", "e", " ", "d", "a", "t", "a", " ", "g", "e", "n", "e", "r", "a", "t", "e", "d", " ", "b", "y", " ", "m", "a", "r", "k", "d", "o", "w", "n", "_", "i", "m", "a", "g", "e", "_", "e", "m", "b", "e", "d", "d", "e", "r", " ", "-", "-", ">", "\n">>

\* the lines "[embedded_id]: data_url\n" for the entries of embedded_data_by_id
RECURSIVE DefinitionLines(_)
DefinitionLines(by_id) ==
    IF by_id = <<>> THEN <<>>
    ELSE <<"[">> \o by_id[1][1] \o <<"]", ":", " ">> \o by_id[1][2] \o <<"\n">>
         \o DefinitionLines(Tail(by_id))

\* the output of process_markdown: the rebuilt body and, when something was
\* embedded, the block of definitions after a blank line
OutputText(md, ms, key_to_id, by_id) ==
    LET body == RebuiltBody(md, ms, key_to_id)
    IN  IF by_id # <<>>
        THEN RStrip(body) \o <<"\n", "\n">> \o MarkerLine \o DefinitionLines(by_id)
        ELSE body

\* the stats dictionary process_markdown starts with
InitialStats ==
    [total_image_size |-> 0, total_compressed_size |-> 0,
     total_output_size |-> 0, images_processed |-> 0, skipped_images |-> 0,
     non_embedded_resources |-> {}]

\* CommandLineOptions with its defaults (0 stands for no max_width/max_height)
DefaultOptions ==
    [yarle_mode |-> FALSE, base_path |-> <<>>, quality_scale |-> 5,
     max_file_size_mb |-> 10, max_width |-> 0, max_height |-> 0]

\* the options of the runs explored
OptionChoices == {DefaultOptions}

\* ------------------------------------------------------------------------
\* Documents
\* ------------------------------------------------------------------------
InlineRemote == <<"!", "[", "a", "]", "(", "h", "t", "t", "p", ":", "/", "/", "x", ")">>
InlineLocal == <<"!", "[", "b", "|", "9", "]", "(", "v", ".", "p", "n", "g", ")">>
ObsidianRemote == <<"!", "[", "[", "h", "t", "t", "p", ":", "/", "/", "x", "]", "]">>
ReferenceImage == <<"!", "[", "c", "]", "[", "r", "]">>
DefinitionLine == <<"\n", "[", "r", "]", ":", " ", "h", "t", "t", "p", ":", "/", "/", "x", "\n">>
ObsidianOpen == <<"!", "[", "[">>
ObsidianShut == <<"]", "]">>
PlainText == <<" ", "t", " ", "\n">>

Pieces == {InlineRemote, InlineLocal, ObsidianRemote, ReferenceImage,
           DefinitionLine, ObsidianOpen, ObsidianShut, PlainText}

\* references whose source is a data URL, an inline image whose alt text
\* spans two lines and an obsidian image with a dimension suffix
InlineData == <<"!", "[", "a", "]", "(", "d", "a", "t", "a", ":", "i", "m", "a", "g", "e", "/", "x", ")">>
ObsidianData == <<"!", "[", "[", "d", "a", "t", "a", ":", "i", "m", "a", "g", "e", "/", "x", "]", "]">>
ReferenceData == <<"!", "[", "c", "]", "[", "d", "]">>
DataDefinitionLine == <<"\n", "[", "d", "]", ":", " ", "d", "a", "t", "a", ":", "i", "m", "a", "g", "e", "%", "2", "F", "x", "\n">>
InlineTwoLines == <<"!", "[", "a", "\n", "b", "]", "(", "v", ".", "p", "n", "g", ")">>
ObsidianSized == <<"!", "[", "[", "v", ".", "p", "n", "g", "|", "9", "]", "]">>

SyntaxPieces == {InlineData, ObsidianData, ReferenceData, DataDefinitionLine,
                 InlineTwoLines, ObsidianSized, InlineLocal}

\* what an earlier run leaves behind: a reference to its first placeholder and
\* the definition line of that placeholder
MiePlaceholder == <<"!", "[", "c", "]", "[", "m", "i", "e", "-", "i", "m", "g", "-", "1", "]">>
MieDefinitionLine == <<"\n", "[", "m", "i", "e", "-", "i", "m", "g", "-", "1", "]", ":", " ", "d", "a", "t", "a", ":", "i", "m", "a", "g", "e", "/", "x", "\n">>

LabelPieces == {InlineRemote, MiePlaceholder, MieDefinitionLine, PlainText}

\* ''.join(ps)
RECURSIVE Flatten(_)
Flatten(ps) == IF ps = <<>> THEN <<>> ELSE Head(ps) \o Flatten(Tail(ps))

\* ------------------------------------------------------------------------
\* move_data_images: transform
\* ------------------------------------------------------------------------
\* marker of transform
MoveMarker == <<"<", "!", "-", "-", " ", "I", "m", "a", "g", "e", " ", "r", "e", "f", "e", "r", "e", "n", "c", "e", "s", " ", "(", "a", "u", "t", "o", "-", "g", "e", "n", "e", "r", "a", "t", "e", "d", " ", "f", "r", "o", "m", " ", "i", "n", "l", "i", "n", "e", " ", "d", "a", "t", "a", " ", "U", "R", "I", "s", ")", " ", "-", "-", ">">>

\* index of the ")" that ends a match of IMAGE_RE,
\* !\[(?P<alt>[^\]]*)\]\((?P<src>data:image[^)]*)\) with re.IGNORECASE,
\* starting at p; 0 when there is no match at p
DataImageEnd(markdown, p) ==
    IF ~ StartsWithAt(markdown, p, <<"!", "[">>) THEN 0
    ELSE LET a == IndexFrom(markdown, p + 2, {"]"})
             e == IndexFrom(markdown, a + 2, {")"})
         IN  IF a + 11 > Len(markdown) \/ markdown[a + 1] # "(" THEN 0
             ELSE IF Lower(SubSeq(markdown, a + 2, a + 11)) # <<"d", "a", "t", "a", ":", "i", "m", "a", "g", "e">> THEN 0
             ELSE IF e > Len(markdown) THEN 0
             ELSE e

\* the indices at which IMAGE_RE matches
DataImageStarts(markdown) ==
    {p \in 1..Len(markdown) : DataImageEnd(markdown, p) # 0}

\* the characters [a-z0-9]
SlugChars ==
    {"a", "b", "c", "d", "e", "f", "g", "h", "i", "j", "k", "l", "m", "n", "o",
     "p", "q", "r", "s", "t", "u", "v", "w", "x", "y", "z",
     "0", "1", "2", "3", "4", "5", "6", "7", "8", "9"}

\* re.sub(r'[^a-z0-9]+', '-', base)
RECURSIVE Dashed(_)
Dashed(base) ==
    IF base = <<>> THEN <<>>
    ELSE IF Head(base) \in SlugChars THEN <<Head(base)>> \o Dashed(Tail(base))
    ELSE <<"-">> \o Dashed(SubSeq(base, IndexFrom(base, 1, SlugChars), Len(base)))

\* str.strip('-')
StripDashes(base) ==
    LET right == RStripChars(base, {"-"})
    IN  SubSeq(right, IndexNotFrom(right, 1, {"-"}), Len(right))

\* base of make_id
IdBase(alt_text) ==
    LET base == StripDashes(Dashed(Lower(Strip(alt_text))))
    IN  IF base = <<>> THEN <<"i", "m", "a", "g", "e">> ELSE base

\* the while loop of make_id from counter i
RECURSIVE make_id_from(_, _, _)
make_id_from(base, existing_ids, i) ==
    LET candidate == <<"d", "a", "t", "a", "i", "m", "g", "-">> \o base
                     \o <<"-">> \o IntToStr(i)
    IN  IF candidate \in existing_ids
        THEN make_id_from(base, existing_ids, i + 1)
        ELSE candidate

\* make_id
make_id(alt_text, existing_ids) ==
    LET base == IdBase(alt_text)
        candidate == <<"d", "a", "t", "a", "i", "m", "g", "-">> \o base
    IN  IF candidate \in existing_ids
        THEN make_id_from(base, existing_ids, 2)
        ELSE candidate

\* IMAGE_RE.sub(replacer, markdown) from index from, refs being the
\* OrderedDict so far as a sequence of [src, img_id]: [new_body, refs];
\* starts is DataImageStarts(markdown)
RECURSIVE SubReplacer(_, _, _, _)
SubReplacer(markdown, starts, from, refs) ==
    IF {p \in starts : p >= from} = {}
    THEN [new_body |-> SubSeq(markdown, from, Len(markdown)), refs |-> refs]
    ELSE LET p == Min({r \in starts : r >= from})
             a == IndexFrom(markdown, p + 2, {"]"})
             e == DataImageEnd(markdown, p)
             alt == SubSeq(markdown, p + 2, a - 1)
             src == SubSeq(markdown, a + 2, e - 1)
             known == {k \in 1..Len(refs) : refs[k].src = src}
             existing_ids == {refs[k].img_id : k \in 1..Len(refs)}
             img_id == IF known # {} THEN refs[CHOOSE k \in known : TRUE].img_id
                       ELSE make_id(alt, existing_ids)
             rest == SubReplacer(markdown, starts, e + 1,
                                 IF known # {} THEN refs
                                 ELSE Append(refs, [src |-> src, img_id |-> img_id]))
         IN  [new_body |-> SubSeq(markdown, from, p - 1)
                           \o <<"!", "[">> \o alt \o <<"]", "[">> \o img_id \o <<"]">>
                           \o rest.new_body,
              refs |-> rest.refs]

\* new_body.split(marker, 1)[0]
BeforeMarker(new_body) ==
    LET at == {p \in 1..Len(new_body) : StartsWithAt(new_body, p, MoveMarker)}
    IN  IF at = {} THEN new_body ELSE SubSeq(new_body, 1, Min(at) - 1)

\* the lines "[img_id]: src" for entries k.. of refs, each ended by "\n"
RECURSIVE RefLines(_, _)
RefLines(refs, k) ==
    IF k > Len(refs) THEN <<>>
    ELSE <<"[">> \o refs[k].img_id \o <<"]", ":", " ">> \o refs[k].src \o <<"\n">>
         \o RefLines(refs, k + 1)

\* transform
transform(markdown) ==
    LET r == SubReplacer(markdown, DataImageStarts(markdown), 1, <<>>)
        new_body == IF Contains(r.new_body, MoveMarker)
                    THEN RStrip(BeforeMarker(r.new_body))
                    ELSE r.new_body
    IN  IF r.refs = <<>> THEN markdown
        ELSE RStrip(new_body) \o <<"\n", "\n">> \o MoveMarker \o <<"\n">>
             \o RefLines(r.refs, 1)

\* the pieces of the documents given to transform: inline data images with
\* equal and different sources and alt texts, one without its closing
\* bracket, the marker and a definition line of an earlier run, an inline
\* image of a remote source and plain text
InlineDataOther == <<"!", "[", "a", "]", "(", "d", "a", "t", "a", ":", "i", "m", "a", "g", "e", "/", "y", ")">>
InlineDataUpper == <<"!", "[", " ", "B", " ", "c", " ", "]", "(", "D", "A", "T", "A", ":", "i", "m", "a", "g", "e", "/", "x", ")">>
InlineDataOpen == <<"!", "[", "b", "]", "(", "d", "a", "t", "a", ":", "i", "m", "a", "g", "e", "/", "y">>
MoveMarkerLine == <<"\n">> \o MoveMarker \o <<"\n">>
MoveDefinitionLine == <<"[", "d", "a", "t", "a", "i", "m", "g", "-", "a", "]", ":", " ", "d", "a", "t", "a", ":", "i", "m", "a", "g", "e", "/", "z", "\n">>

MovePieces == {InlineData, InlineDataOther, InlineDataUpper, InlineDataOpen,
               MoveMarkerLine, MoveDefinitionLine, InlineRemote, PlainText}

\* ------------------------------------------------------------------------
\* State
\* ------------------------------------------------------------------------
VARIABLES
    markdown,             \* the document given to process_markdown
    options,              \* CommandLineOptions
    SVG_SUPPORT,          \* whether svglib and reportlab were importable
    corpus,               \* the contents files and responses can hold
    world,                \* resource -> outcome, for the resources looked at
    pc,                   \* "start", "pass1", "done"; "quality" in SpecQ
    run,                  \* 1 for the first run, 2 for a run on its output
    matches,              \* find_image_links(markdown)
    next_match,           \* index of the match the first pass handles next
    key_to_embedded_id,   \* dict: canonical key -> embedded id
    embedded_data_by_id,  \* dict in insertion order: <<embedded id, data URL>>
    img_counter,
    stats,
    output,               \* the text process_markdown returns
    attempts,             \* history: keys embed_image_data was called for
    fetches,              \* history: resources opened or downloaded
    emitted,              \* history: text the second pass appended per match
    first_output,         \* the text the first run returned
    file_size_bytes,      \* SpecQ: argument of calculate_jpeg_quality
    quality_scale,        \* SpecQ: argument of calculate_jpeg_quality
    jpeg_quality,         \* SpecQ: result of the module function, -1 before
    ip_jpeg_quality,      \* SpecQ: result of the ImageProcessor method
    compressed_size,      \* SpecSize: length of a transcoded image
    final_size,           \* SpecSize: final_size of the size guard, -1 before
    alt_text,             \* SpecAlt: alt text of an embedded reference
    display_alt,          \* SpecAlt: display_alt of the second pass
    input_files,          \* SpecMain: what each named input is on disk
    stdin_kind,           \* SpecMain: what standard input and output are
    mode,                 \* SpecMain: "output_file", "backup", "overwrite", "stdout"
    main_pc,              \* SpecMain: "idle", "expand", "loop", "stdin", "report", "returned"
    files_to_process,     \* SpecMain: indices of the inputs that are files
    file_index,           \* SpecMain: position of the loop in files_to_process
    exit_code,
    processed_file_details, \* SpecMain: the status of each processed document
    overall_non_embedded, \* SpecMain: documents with a resource not embedded
    main_result,          \* SpecMain: the value main returned, -1 before
    overwritten,          \* SpecMain: inputs opened for writing in place
    compress_args,        \* SpecCompress: the arguments of compress_to_jpeg
    compress_return,      \* SpecCompress: what compress_to_jpeg returned, <<>> before
    resolve_args,         \* SpecResolve: a local source, the base path and the files
    resolve_return,       \* SpecResolve: the file read without and with Yarle mode
    source_text,          \* SpecMove: the document given to transform
    transformed,          \* SpecMove: transform(text), <<>> before
    retransformed,        \* SpecMove: transform(transform(text)), <<>> before
    move_pc               \* SpecMove: "idle", "start", "once", "twice"

env_vars == <<options, SVG_SUPPORT, corpus>>
run_vars == <<matches, next_match, key_to_embedded_id, embedded_data_by_id,
              img_counter, stats, output, attempts, fetches, emitted>>
doc_vars == <<markdown, env_vars, world, pc, run, run_vars, first_output>>
size_vars == <<compressed_size, final_size>>
alt_vars == <<alt_text, display_alt>>
main_vars == <<input_files, stdin_kind, mode, main_pc, files_to_process,
               file_index, exit_code, processed_file_details,
               overall_non_embedded, main_result, overwritten>>
compress_vars == <<compress_args, compress_return>>
resolve_vars == <<resolve_args, resolve_return>>
move_vars == <<source_text, transformed, retransformed, move_pc>>
aux_vars == <<compress_vars, resolve_vars, move_vars>>
q_vars == <<file_size_bytes, quality_scale, jpeg_quality, ip_jpeg_quality,
            size_vars, alt_vars, main_vars, aux_vars>>
vars == <<doc_vars, q_vars>>

\* the locals of process_markdown before the scan
FreshRun ==
    /\ matches = <<>>
    /\ next_match = 1
    /\ key_to_embedded_id = << >>
    /\ embedded_data_by_id = <<>>
    /\ img_counter = 1
    /\ stats = InitialStats
    /\ output = <<>>
    /\ attempts = <<>>
    /\ fetches = <<>>
    /\ emitted = <<>>

\* no call of calculate_jpeg_quality
QIdle ==
    /\ file_size_bytes = 0
    /\ quality_scale = 5
    /\ jpeg_quality = -1
    /\ ip_jpeg_quality = -1

\* no evaluation of the size guard on its own
SizeIdle ==
    /\ compressed_size = 0
    /\ final_size = -1

\* no evaluation of display_alt on its own
AltIdle ==
    /\ alt_text = <<>>
    /\ display_alt = <<>>

\* an input that is a readable file, written without error, all images embedded
PlainFile == [expands |-> TRUE, exists |-> TRUE, readable |-> TRUE, backup_ok |-> TRUE,
              write_ok |-> TRUE, images_failed |-> FALSE]

\* main is not running
MainIdle ==
    /\ input_files = <<>>
    /\ stdin_kind = PlainFile
    /\ mode = "stdout"
    /\ main_pc = "idle"
    /\ files_to_process = <<>>
    /\ file_index = 1
    /\ exit_code = 0
    /\ processed_file_details = <<>>
    /\ overall_non_embedded = {}
    /\ main_result = -1
    /\ overwritten = {}

\* compress_to_jpeg, the resolution of a local source and transform are not
\* called on their own
AuxIdle ==
    /\ compress_args = <<>>
    /\ compress_return = <<>>
    /\ resolve_args = <<>>
    /\ resolve_return = <<>>
    /\ source_text = <<>>
    /\ transformed = <<>>
    /\ retransformed = <<>>
    /\ move_pc = "idle"

\* process_markdown is not running: the functions are called on their own
NoDocument ==
    /\ markdown = <<>>
    /\ options \in OptionChoices
    /\ SVG_SUPPORT = FALSE
    /\ corpus = StandardCorpus
    /\ world = << >>
    /\ run = 1
    /\ first_output = <<>>
    /\ FreshRun

\* process_markdown is about to run on document md, nothing looked at yet
InitWith(md) ==
    /\ markdown = md
    /\ options \in OptionChoices
    /\ SVG_SUPPORT = FALSE
    /\ corpus = StandardCorpus
    /\ world = << >>
    /\ pc = "start"
    /\ run = 1
    /\ first_output = <<>>
    /\ FreshRun
    /\ QIdle
    /\ SizeIdle
    /\ AltIdle
    /\ MainIdle
    /\ AuxIdle

\* a document of at most MaxPieces pieces
Init ==
    \E n \in 0..MaxPieces : \E ps \in [1..n -> Pieces] : InitWith(Flatten(ps))

\* a document that refers to one address through up to MaxDedupRefs inline,
\* obsidian and reference-style images, followed by the definition of the label
InitDedup ==
    \E n \in 1..MaxDedupRefs :
      \E ps \in [1..n -> {InlineRemote, ObsidianRemote, ReferenceImage}] :
        InitWith(Flatten(ps) \o DefinitionLine)

\* a document of inline images whose sources hold images close to the budget
InitBudget ==
    \E n \in 1..MaxPieces :
      \E ps \in [1..n -> {InlineRemote, InlineLocal, PlainText}] :
        /\ markdown = Flatten(ps)
        /\ options \in OptionChoices
        /\ SVG_SUPPORT = FALSE
        /\ corpus = BudgetCorpus(options)
        /\ world = << >>
        /\ pc = "start"
        /\ run = 1
        /\ first_output = <<>>
        /\ FreshRun
        /\ QIdle
        /\ SizeIdle
        /\ AltIdle
        /\ MainIdle
        /\ AuxIdle

\* a document of at most MaxPieces of the pieces in SyntaxPieces
InitSyntax ==
    \E n \in 1..MaxPieces : \E ps \in [1..n -> SyntaxPieces] :
      InitWith(Flatten(ps))

\* a document of at most MaxPieces of the pieces in LabelPieces
InitLabels ==
    \E n \in 1..MaxPieces : \E ps \in [1..n -> LabelPieces] :
      InitWith(Flatten(ps))

\* a document of inline images whose sources hold small contents
InitSmall ==
    \E n \in 1..MaxPieces :
      \E ps \in [1..n -> {InlineRemote, InlineLocal, PlainText}] :
        /\ markdown = Flatten(ps)
        /\ options \in OptionChoices
        /\ SVG_SUPPORT = FALSE
        /\ corpus = SmallCorpus
        /\ world = << >>
        /\ pc = "start"
        /\ run = 1
        /\ first_output = <<>>
        /\ FreshRun
        /\ QIdle
        /\ SizeIdle
        /\ AltIdle
        /\ MainIdle
        /\ AuxIdle

\* the worlds that agree with w and also cover the resources in Q
WorldExtensions(w, Q) ==
    LET new == Q \ DOMAIN w
    IN  {w @@ f : f \in {g \in [new -> FileOutcomes(corpus)] :
                           \A r \in new : g[r] \in OutcomesOf(corpus, r)}}

\* matches = find_image_links(markdown)
FindImageLinks ==
    /\ pc = "start"
    /\ matches' = find_image_links(markdown)
    /\ pc' = "pass1"
    /\ UNCHANGED <<markdown, env_vars, world, run, next_match,
                   key_to_embedded_id, embedded_data_by_id, img_counter,
                   stats, output, attempts, fetches, emitted, first_output,
                   q_vars>>

\* one iteration of the first-pass loop
FirstPassStep ==
    /\ pc = "pass1"
    /\ next_match <= Len(matches)
    /\ LET match == matches[next_match]
           key == CanonicalKey(match)
       IN  IF key \in DOMAIN key_to_embedded_id
           THEN UNCHANGED <<world, key_to_embedded_id, embedded_data_by_id,
                            img_counter, stats, attempts, fetches>>
           ELSE \E w \in WorldExtensions(world, Queries(match.url, options)) :
                  LET r == embed_image_data(match, options, stats, w, SVG_SUPPORT)
                      embedded_id == EmbeddedId(img_counter)
                  IN  /\ world' = w
                      /\ attempts' = Append(attempts, key)
                      /\ fetches' = fetches \o r.fetched
                      /\ IF r.data_url = <<>>
                         THEN /\ stats' = [r.stats EXCEPT !.skipped_images = @ + 1]
                              /\ UNCHANGED <<key_to_embedded_id,
                                             embedded_data_by_id, img_counter>>
                         ELSE /\ img_counter' = img_counter + 1
                              /\ key_to_embedded_id' =
                                   key_to_embedded_id @@ (key :> embedded_id)
                              /\ embedded_data_by_id' =
                                   Append(embedded_data_by_id,
                                          <<embedded_id, r.data_url>>)
                              /\ stats' = [r.stats EXCEPT !.images_processed = @ + 1]
    /\ next_match' = next_match + 1
    /\ UNCHANGED <<markdown, env_vars, pc, run, matches, output, emitted,
                   first_output, q_vars>>

\* the second pass, the definitions block and the final statistics
Rebuild ==
    /\ pc = "pass1"
    /\ next_match > Len(matches)
    /\ emitted' = SecondPass(markdown, matches, key_to_embedded_id,
                             Len(matches)).emitted
    /\ output' = OutputText(markdown, matches, key_to_embedded_id,
                            embedded_data_by_id)
    /\ stats' = [stats EXCEPT !.total_output_size = Len(output')]
    /\ pc' = "done"
    /\ UNCHANGED <<markdown, env_vars, world, run, matches, next_match,
                   key_to_embedded_id, embedded_data_by_id, img_counter,
                   attempts, fetches, first_output, q_vars>>

\* process_markdown is called again on the text it returned, with the same
\* options and the same environment
Rerun ==
    /\ pc = "done"
    /\ run = 1
    /\ markdown' = output
    /\ first_output' = output
    /\ run' = 2
    /\ pc' = "start"
    /\ matches' = <<>>
    /\ next_match' = 1
    /\ key_to_embedded_id' = << >>
    /\ embedded_data_by_id' = <<>>
    /\ img_counter' = 1
    /\ stats' = InitialStats
    /\ output' = <<>>
    /\ attempts' = <<>>
    /\ fetches' = <<>>
    /\ emitted' = <<>>
    /\ UNCHANGED <<env_vars, world, q_vars>>

Next == FindImageLinks \/ FirstPassStep \/ Rebuild

Spec == Init /\ [][Next]_vars

\* one multi-syntax document per behaviour
SpecDedup == InitDedup /\ [][Next]_vars

\* documents whose images are close to the budget of the size guard
SpecBudget == InitBudget /\ [][Next]_vars

\* documents with data URLs, two-line alt texts and dimension suffixes
SpecSyntax == InitSyntax /\ [][Next]_vars

\* documents whose sources hold small contents
SpecSmall == InitSmall /\ [][Next]_vars

\* process_markdown on a document that holds placeholders of an earlier run
SpecLabels == InitLabels /\ [][Next]_vars

NextRerun == FindImageLinks \/ FirstPassStep \/ Rebuild \/ Rerun

\* process_markdown followed by a second run on its own output
SpecRerun == Init /\ [][NextRerun]_vars

\* ------------------------------------------------------------------------
\* The quality model on its own
\* ------------------------------------------------------------------------
\* the upper bounds of the size bands and a size in the last band
BandBounds == {SIZE_1KB, SIZE_5KB, SIZE_20KB, SIZE_50KB, SIZE_100KB, SIZE_200KB}
\* sizes at most MaxDelta away from a band bound, the empty file and 300 KiB
QSizes == {0, 300 * 1024}
          \cup {b + d : b \in BandBounds, d \in (0 - MaxDelta)..MaxDelta}
QScales == 1..9

\* calculate_jpeg_quality is about to be called
InitQ ==
    /\ NoDocument
    /\ SizeIdle
    /\ AltIdle
    /\ MainIdle
    /\ AuxIdle
    /\ pc = "quality"
    /\ file_size_bytes \in QSizes
    /\ quality_scale \in QScales
    /\ jpeg_quality = -1
    /\ ip_jpeg_quality = -1

\* both implementations are called with the same arguments
CalculateJpegQuality ==
    /\ pc = "quality"
    /\ jpeg_quality = -1
    /\ jpeg_quality' = calculate_jpeg_quality(file_size_bytes, quality_scale)
    /\ ip_jpeg_quality' =
         ImageProcessor_calculate_jpeg_quality(file_size_bytes, quality_scale)
    /\ UNCHANGED <<doc_vars, file_size_bytes, quality_scale, size_vars,
                   alt_vars, main_vars, aux_vars>>

NextQ == CalculateJpegQuality

SpecQ == InitQ /\ [][NextQ]_vars

\* ------------------------------------------------------------------------
\* The size guard on its own
\* ------------------------------------------------------------------------
\* the lengths of the transcoded images the guard is evaluated for
GuardSizes == 1..MaxCompressedSize

\* embed_image_data has a transcoded image of compressed_size bytes
InitSize ==
    /\ NoDocument
    /\ QIdle
    /\ AltIdle
    /\ MainIdle
    /\ AuxIdle
    /\ pc = "guard"
    /\ compressed_size \in GuardSizes
    /\ final_size = -1

\* final_size = len(base64_data) + MARKDOWN_IMAGE_OVERHEAD
EvaluateFinalSize ==
    /\ pc = "guard"
    /\ final_size = -1
    /\ final_size' = FinalSize(compressed_size)
    /\ UNCHANGED <<doc_vars, file_size_bytes, quality_scale, jpeg_quality,
                   ip_jpeg_quality, compressed_size, alt_vars, main_vars, aux_vars>>

NextSize == EvaluateFinalSize

SpecSize == InitSize /\ [][NextSize]_vars

\* ------------------------------------------------------------------------
\* The alt text of a replacement on its own
\* ------------------------------------------------------------------------
\* the characters alt texts are made of: a letter, the backslash and the pipe
AltAlphabet == {"f", "\\", "|"}

\* the alt texts of at most MaxAltLen characters
AltTexts == UNION {[1..n -> AltAlphabet] : n \in 0..MaxAltLen}

\* the second pass reaches an embedded reference with alt text alt_text
InitAlt ==
    /\ NoDocument
    /\ QIdle
    /\ SizeIdle
    /\ MainIdle
    /\ AuxIdle
    /\ pc = "alt"
    /\ alt_text \in AltTexts
    /\ display_alt = <<>>

\* display_alt = f"{alt_main}{dimensions}"
BuildDisplayAlt ==
    /\ pc = "alt"
    /\ display_alt' = DisplayAlt(alt_text)
    /\ pc' = "alt_done"
    /\ UNCHANGED <<markdown, env_vars, world, run, run_vars, first_output,
                   file_size_bytes, quality_scale, jpeg_quality, ip_jpeg_quality,
                   size_vars, alt_text, main_vars, aux_vars>>

NextAlt == BuildDisplayAlt

SpecAlt == InitAlt /\ [][NextAlt]_vars

\* ------------------------------------------------------------------------
\* transform on its own
\* ------------------------------------------------------------------------
\* transform is about to be called on a document of at most MaxPieces pieces
InitMove ==
    /\ NoDocument
    /\ QIdle
    /\ SizeIdle
    /\ AltIdle
    /\ MainIdle
    /\ pc = "move"
    /\ compress_args = <<>>
    /\ compress_return = <<>>
    /\ resolve_args = <<>>
    /\ resolve_return = <<>>
    /\ \E n \in 0..MaxPieces : \E ps \in [1..n -> MovePieces] :
         source_text = Flatten(ps)
    /\ transformed = <<>>
    /\ retransformed = <<>>
    /\ move_pc = "start"

\* transformed = transform(text)
Transform ==
    /\ move_pc = "start"
    /\ transformed' = transform(source_text)
    /\ move_pc' = "once"
    /\ UNCHANGED <<doc_vars, file_size_bytes, quality_scale, jpeg_quality,
                   ip_jpeg_quality, size_vars, alt_vars, main_vars,
                   compress_vars, resolve_vars, source_text, retransformed>>

\* the script is run again on the file it wrote
TransformAgain ==
    /\ move_pc = "once"
    /\ retransformed' = transform(transformed)
    /\ move_pc' = "twice"
    /\ UNCHANGED <<doc_vars, file_size_bytes, quality_scale, jpeg_quality,
                   ip_jpeg_quality, size_vars, alt_vars, main_vars,
                   compress_vars, resolve_vars, source_text, transformed>>

NextMove == Transform \/ TransformAgain

SpecMove == InitMove /\ [][NextMove]_vars

\* ------------------------------------------------------------------------
\* embed_image_data on a local source
\* ------------------------------------------------------------------------
\* local sources: with and without a Yarle resource marker, with and without
\* a percent escape, a leading ./ and a trailing quote
LocalSources ==
    {<<".", "/", "_", "r", "e", "s", "o", "u", "r", "c", "e", "s", "/", "a", "%", "2", "0", "b">>,
     <<".", "r", "e", "s", "o", "u", "r", "c", "e", "s", "/", "a">>,
     <<".", "r", "e", "s", "o", "u", "r", "c", "e", "s", "/", "a", "%", "2", "0", "b", "\"">>,
     <<"a", "%", "2", "0", "b">>,
     <<".", "/", "a">>}

\* options.base_path: none, or a directory
BasePaths == {<<>>, <<"/", "b">>}

\* the files that exist for a call: a world over the paths the call may look
\* at in which the files of the set present hold a small image
WorldOf(paths, present) ==
    [p \in paths |-> IF p \in present /\ p # <<>> THEN Holds(TinyData) ELSE Absent]

\* embed_image_data is about to be called for a local source
InitResolve ==
    /\ markdown = <<>>
    /\ \E y \in BOOLEAN, b \in BasePaths :
         options = [DefaultOptions EXCEPT !.yarle_mode = y, !.base_path = b]
    /\ SVG_SUPPORT = FALSE
    /\ corpus = StandardCorpus
    /\ resolve_args \in LocalSources
    /\ \E present \in SUBSET Queries(resolve_args, options) :
         world = WorldOf(Queries(resolve_args, options), present)
    /\ pc = "resolve"
    /\ run = 1
    /\ first_output = <<>>
    /\ FreshRun
    /\ QIdle
    /\ SizeIdle
    /\ AltIdle
    /\ MainIdle
    /\ compress_args = <<>>
    /\ compress_return = <<>>
    /\ resolve_return = <<>>
    /\ source_text = <<>>
    /\ transformed = <<>>
    /\ retransformed = <<>>
    /\ move_pc = "idle"

\* data_url = embed_image_data(match, temp_options, stats)
EmbedLocalSource ==
    /\ pc = "resolve"
    /\ resolve_return = <<>>
    /\ resolve_return' =
         embed_image_data([url |-> resolve_args], options, InitialStats, world,
                          SVG_SUPPORT)
    /\ UNCHANGED <<doc_vars, file_size_bytes, quality_scale, jpeg_quality,
                   ip_jpeg_quality, size_vars, alt_vars, main_vars,
                   compress_vars, resolve_args, move_vars>>

NextResolve == EmbedLocalSource

SpecResolve == InitResolve /\ [][NextResolve]_vars

\* ------------------------------------------------------------------------
\* compress_to_jpeg on its own
\* ------------------------------------------------------------------------
\* input_data: decodable images of 1023, 1024, 1025 and 51200 bytes, and
\* undecodable bytes of 500 and of 4096 bytes
CompressInputs ==
    {Picture(1023, 900, <<"a">>), Picture(1024, 901, <<"b">>),
     Picture(1025, 902, <<"c">>), PictureData, ShortGarbageData, GarbageData}

\* url: a raster image and an SVG
CompressUrls == {<<"v", ".", "p", "n", "g">>, <<"v", ".", "s", "v", "g">>}

\* compress_to_jpeg is about to be called
InitCompress ==
    /\ markdown = <<>>
    /\ options \in OptionChoices
    /\ SVG_SUPPORT \in BOOLEAN
    /\ corpus = StandardCorpus
    /\ world = << >>
    /\ pc = "compress"
    /\ run = 1
    /\ first_output = <<>>
    /\ FreshRun
    /\ QIdle
    /\ SizeIdle
    /\ AltIdle
    /\ MainIdle
    /\ compress_args \in [input_data : CompressInputs, quality_scale : 1..9,
                          url : CompressUrls, max_width : {0, 800},
                          max_height : {0, 600}]
    /\ compress_return = <<>>
    /\ resolve_args = <<>>
    /\ resolve_return = <<>>
    /\ source_text = <<>>
    /\ transformed = <<>>
    /\ retransformed = <<>>
    /\ move_pc = "idle"

\* compressed_data, jpeg_quality, original_size, compressed_size =
\* compress_to_jpeg(...)
CompressToJpeg ==
    /\ pc = "compress"
    /\ compress_return = <<>>
    /\ compress_return' =
         compress_to_jpeg(compress_args.input_data, compress_args.quality_scale,
                          compress_args.url, compress_args.max_width,
                          compress_args.max_height, SVG_SUPPORT)
    /\ UNCHANGED <<doc_vars, file_size_bytes, quality_scale, jpeg_quality,
                   ip_jpeg_quality, size_vars, alt_vars, main_vars,
                   compress_args, resolve_vars, move_vars>>

NextCompress == CompressToJpeg

SpecCompress == InitCompress /\ [][NextCompress]_vars

\* ------------------------------------------------------------------------
\* main
\* ------------------------------------------------------------------------
\* What a named input is: glob.glob expands it or raises, it exists as a file
\* or not, reading it succeeds or raises, copying it to its .bak succeeds or raises, writing the result to
\* the destination of the mode succeeds or raises, and process_markdown, which
\* raises for no image, embeds every image of it or leaves some resource out.
FileKinds ==
    [expands : BOOLEAN, exists : {FALSE}, readable : {FALSE},
     backup_ok : {FALSE}, write_ok : {FALSE}, images_failed : {FALSE}]
    \cup [expands : {TRUE}, exists : {TRUE}, readable : BOOLEAN,
          backup_ok : BOOLEAN, write_ok : BOOLEAN, images_failed : BOOLEAN]

\* what standard input and the destination of its result can be
StdinKinds ==
    [expands : {TRUE}, exists : {TRUE}, readable : BOOLEAN,
     backup_ok : {TRUE}, write_ok : BOOLEAN, images_failed : BOOLEAN]

\* the output action main chooses: options.output_file, else options.backup,
\* else options.overwrite, else standard output
Modes == {"output_file", "backup", "overwrite", "stdout"}

\* main is called after parse_arguments accepted the command line: several
\* inputs need an output file, --backup or --overwrite
InitMain ==
    /\ NoDocument
    /\ QIdle
    /\ SizeIdle
    /\ AltIdle
    /\ AuxIdle
    /\ pc = "main"
    /\ \E n \in 0..MaxFiles :
         /\ input_files \in [1..n -> FileKinds]
         /\ stdin_kind \in (IF n = 0 THEN StdinKinds ELSE {PlainFile})
         /\ mode \in (IF n > 1 THEN Modes \ {"stdout"} ELSE Modes)
    /\ main_pc = "expand"
    /\ files_to_process = <<>>
    /\ file_index = 1
    /\ exit_code = 0
    /\ processed_file_details = <<>>
    /\ overall_non_embedded = {}
    /\ main_result = -1
    /\ overwritten = {}

\* the indices k..Len(kinds) of the inputs that exist as files, in order
RECURSIVE ExistingFrom(_, _)
ExistingFrom(kinds, k) ==
    IF k > Len(kinds) THEN <<>>
    ELSE (IF kinds[k].exists THEN <<k>> ELSE <<>>) \o ExistingFrom(kinds, k + 1)

\* the write of the result in the given mode raises no exception
Delivered(m, kind) ==
    IF m = "backup" THEN kind.backup_ok /\ kind.write_ok ELSE kind.write_ok

\* an overwrite that does not wait for the backup
OpensOriginal_before_backup(m, kind) ==
    kind.readable /\ m \in {"backup", "overwrite"}

\* open(input_file, 'w') is reached: with --overwrite after the document was
\* read, with --backup only after shutil.copy2 returned
OpensOriginal(m, kind) ==
    /\ kind.readable
    /\ \/ m = "overwrite"
       \/ m = "backup" /\ kind.backup_ok

\* an exit code that no failure changes
ExitCodeAfter_ignored(code, failed) == code

\* exit_code = 1 in the except clauses of main
ExitCodeAfter(code, failed) == IF failed THEN 1 ELSE code

\* the patterns are expanded, an expansion that raises sets the exit code;
\* without a file among them main returns 1
ExpandPatterns ==
    /\ main_pc = "expand"
    /\ IF input_files = <<>>
       THEN /\ main_pc' = "stdin"
            /\ UNCHANGED <<files_to_process, exit_code, main_result>>
       ELSE /\ files_to_process' = ExistingFrom(input_files, 1)
            /\ exit_code' =
                 ExitCodeAfter(exit_code,
                               \E k \in 1..Len(input_files) :
                                 ~ input_files[k].expands)
            /\ IF files_to_process' = <<>>
               THEN main_pc' = "returned" /\ main_result' = 1
               ELSE main_pc' = "loop" /\ UNCHANGED main_result
    /\ UNCHANGED <<doc_vars, file_size_bytes, quality_scale, jpeg_quality,
                   ip_jpeg_quality, size_vars, alt_vars, aux_vars, input_files,
                   stdin_kind, mode, file_index, overwritten,
                   processed_file_details, overall_non_embedded>>

\* one iteration of the loop over files_to_process: read, process_markdown,
\* output action
ProcessFile ==
    /\ main_pc = "loop"
    /\ file_index <= Len(files_to_process)
    /\ LET kind == input_files[files_to_process[file_index]]
           failed == ~ kind.readable \/ ~ Delivered(mode, kind)
       IN  /\ exit_code' = ExitCodeAfter(exit_code, failed)
           /\ processed_file_details' =
                Append(processed_file_details,
                       IF failed THEN "ERROR" ELSE "OK")
           /\ overall_non_embedded' =
                IF kind.readable /\ kind.images_failed
                THEN overall_non_embedded \cup {files_to_process[file_index]}
                ELSE overall_non_embedded
           /\ overwritten' =
                IF OpensOriginal(mode, kind)
                THEN overwritten \cup {files_to_process[file_index]}
                ELSE overwritten
    /\ file_index' = file_index + 1
    /\ UNCHANGED <<doc_vars, file_size_bytes, quality_scale, jpeg_quality,
                   ip_jpeg_quality, size_vars, alt_vars, aux_vars, input_files,
                   stdin_kind, mode, main_pc, files_to_process, main_result>>

\* the loop over files_to_process is over
FinishLoop ==
    /\ main_pc = "loop"
    /\ file_index > Len(files_to_process)
    /\ main_pc' = "report"
    /\ UNCHANGED <<doc_vars, file_size_bytes, quality_scale, jpeg_quality,
                   ip_jpeg_quality, size_vars, alt_vars, aux_vars, input_files,
                   stdin_kind, mode, files_to_process, file_index, exit_code,
                   processed_file_details, overall_non_embedded, main_result,
                   overwritten>>

\* standard input is read and processed, and the result is written to the
\* output file or to standard output; the status is set before that write
ProcessStdin ==
    /\ main_pc = "stdin"
    /\ LET failed == ~ stdin_kind.readable \/ ~ stdin_kind.write_ok
       IN  /\ exit_code' = ExitCodeAfter(exit_code, failed)
           /\ processed_file_details' =
                <<IF stdin_kind.readable THEN "OK" ELSE "ERROR">>
           /\ overall_non_embedded' =
                IF stdin_kind.readable /\ stdin_kind.images_failed
                THEN {0} ELSE {}
    /\ main_pc' = "report"
    /\ UNCHANGED <<doc_vars, file_size_bytes, quality_scale, jpeg_quality,
                   ip_jpeg_quality, size_vars, alt_vars, aux_vars, input_files,
                   stdin_kind, mode, files_to_process, file_index, main_result,
                   overwritten>>

\* return exit_code
ReturnExitCode ==
    /\ main_pc = "report"
    /\ main_result' = exit_code
    /\ main_pc' = "returned"
    /\ UNCHANGED <<doc_vars, file_size_bytes, quality_scale, jpeg_quality,
                   ip_jpeg_quality, size_vars, alt_vars, aux_vars, input_files,
                   stdin_kind, mode, files_to_process, file_index, exit_code,
                   processed_file_details, overall_non_embedded, overwritten>>

NextMain ==
    ExpandPatterns \/ ProcessFile \/ FinishLoop \/ ProcessStdin \/ ReturnExitCode

SpecMain == InitMain /\ [][NextMain]_vars

\* ------------------------------------------------------------------------
\* Properties of process_markdown
\* ------------------------------------------------------------------------
\* the elements of a sequence
Range(seq) == {seq[k] : k \in 1..Len(seq)}

\* the key two references share: the label of a reference-style image, else
\* the source as it was scanned
SharedKey(m) ==
    IF m.style = "reference" /\ m.ref_id # <<>> THEN <<"ref", m.ref_id>>
    ELSE <<"url", m.url>>

\* reference i was rewritten by the second pass
Rewritten(i) == emitted[i] # matches[i].original_text

\* the id between the last pair of brackets of a rewritten reference
PlaceholderOf(text) == SubSeq(text, RFind(text, Len(text), "[") + 1, Len(text) - 1)

\* text has the form ![alt][id]
PlaceholderForm(text) ==
    /\ StartsWith(text, <<"!", "[">>)
    /\ text[Len(text)] = "]"
    /\ \E q \in 3..(Len(text) - 2) :
         /\ text[q] = "]" /\ text[q + 1] = "["
         /\ \A r \in 3..(q - 1) : text[r] # "]"
         /\ \A r \in (q + 2)..(Len(text) - 1) : text[r] \notin {"[", "]"}

\* the text after the last marker comment of text, empty without a marker
AppendedBlock(text) ==
    LET at == {p \in 1..Len(text) : StartsWithAt(text, p, MarkerLine)}
    IN  IF at = {} THEN <<>>
        ELSE LET last == CHOOSE p \in at : \A q \in at : q <= p
             IN  SubSeq(text, last + Len(MarkerLine), Len(text))

\* the text before the separator and the last marker comment of text
BodyOf(text) ==
    LET at == {p \in 1..Len(text) : StartsWithAt(text, p, MarkerLine)}
    IN  IF at = {} THEN text
        ELSE LET last == CHOOSE p \in at : \A q \in at : q <= p
             IN  SubSeq(text, 1, last - 3)

\* the lines of block that start with pre
LinesStarting(block, pre) ==
    {p \in 1..Len(block) : /\ p = 1 \/ block[p - 1] = "\n"
                           /\ StartsWithAt(block, p, pre)}

\* the number of definition lines "[id]: ..." in block
DefinitionLineCount(block, id) ==
    Cardinality(LinesStarting(block, <<"[">> \o id \o <<"]", ":", " ">>))

\* C1: when process_markdown has returned, every reference that was rewritten
\* has the form ![alt][id], the appended block holds exactly one definition
\* line for that id, and every reference that shares its key (the label for a
\* reference-style image, else the scanned source) is rewritten to the same id
C1_OnePayloadPerKey ==
    pc = "done" =>
      \A i \in 1..Len(matches) :
        Rewritten(i) =>
          /\ PlaceholderForm(emitted[i])
          /\ DefinitionLineCount(AppendedBlock(output), PlaceholderOf(emitted[i])) = 1
          /\ \A j \in 1..Len(matches) :
               SharedKey(matches[j]) = SharedKey(matches[i]) =>
                 /\ Rewritten(j)
                 /\ PlaceholderOf(emitted[j]) = PlaceholderOf(emitted[i])

\* two references of different syntax share a key that was embedded
C1_Witness ==
    /\ pc = "done"
    /\ \E i, j \in 1..Len(matches) :
         /\ i < j
         /\ matches[i].style # matches[j].style
         /\ SharedKey(matches[i]) = SharedKey(matches[j])
         /\ Rewritten(i)
         /\ Rewritten(j)

\* C2: within one run embed_image_data is attempted at most once per key,
\* whether the first attempt succeeded or failed
C2_AtMostOneAttemptPerKey ==
    \A i, j \in 1..Len(attempts) : attempts[i] = attempts[j] => i = j

\* C3: a document that refers to one address through the inline (twice or
\* more), reference and obsidian syntaxes, the address being embeddable, gets
\* exactly one definition line and the address is fetched exactly once
C3_OneDefinitionOneFetch ==
    (/\ pc = "done"
     /\ Cardinality({i \in 1..Len(matches) : matches[i].style = "inline"}) >= 2
     /\ \E i \in 1..Len(matches) : matches[i].style = "reference"
     /\ \E i \in 1..Len(matches) : matches[i].style = "obsidian"
     /\ \A i \in 1..Len(matches) : Rewritten(i))
    => /\ Cardinality(LinesStarting(AppendedBlock(output), <<"[">>)) = 1
       /\ Len(fetches) = 1

\* the input with the spans of ms[1..k] replaced by em[1..k], last span first
RECURSIVE SpansReplaced(_, _, _, _)
SpansReplaced(text, ms, em, k) ==
    IF k = 0 THEN text
    ELSE SpansReplaced(SubSeq(text, 1, ms[k].position) \o em[k]
                         \o SubSeq(text, ms[k].position + ms[k].length + 1,
                                   Len(text)),
                       ms, em, k - 1)

\* C4: in the returned text every scanned reference stands once, in place of
\* its span, either as its original text or as ![alt][id] with a definition
\* line for id in the appended block; nothing is duplicated or dropped
C4_EachReferenceOnce ==
    pc = "done" =>
      /\ Len(emitted) = Len(matches)
      /\ \A i \in 1..Len(matches) :
           \/ emitted[i] = matches[i].original_text
           \/ /\ PlaceholderForm(emitted[i])
              /\ DefinitionLineCount(AppendedBlock(output),
                                     PlaceholderOf(emitted[i])) >= 1
      /\ LET expected == SpansReplaced(markdown, matches, emitted, Len(matches))
         IN  IF embedded_data_by_id = <<>> THEN output = expected
             ELSE BodyOf(output) = RStrip(expected)

\* C5: a second run on the text the first run returned, with the same options
\* and the same environment, returns that text and assigns no id
C5_RerunUnchanged ==
    (pc = "done" /\ run = 2) =>
      /\ output = first_output
      /\ key_to_embedded_id = << >>
      /\ img_counter = 1

\* C6: the list find_image_links returns is sorted by position and the spans
\* of consecutive entries do not overlap
C6_SortedNonOverlapping ==
    \A i \in 1..(Len(matches) - 1) :
      matches[i].position + matches[i].length <= matches[i + 1].position

\* outcomes for which some stage of embed_image_data fails: not found or not
\* fetched, read error, video signature, undecodable bytes, over the budget
FailingOutcomes ==
    {Absent, Unreadable, Holds(VideoData), Holds(GarbageData), Holds(HugeData)}

\* the source of reference i cannot be embedded in this environment
SourceFails(i) ==
    LET source == CleanedSource(matches[i].url)
    IN  source \in DOMAIN world /\ world[source] \in FailingOutcomes

TableOfBands ==
    << <<100, 100, 100, 100, 100, 100, 100, 100, 100>>,
       <<30, 45, 60, 75, 90, 92, 94, 96, 98>>,
       <<25, 37, 49, 60, 70, 77, 83, 89, 95>>,
       <<20, 28, 36, 43, 50, 60, 70, 80, 90>>,
       <<15, 22, 28, 34, 40, 52, 63, 74, 85>>,
       <<12, 16, 19, 22, 25, 40, 53, 67, 80>>,
       <<10, 12, 14, 16, 18, 33, 47, 61, 75>> >>

\* inclusive upper bounds of the first six bands, in bytes
UpperBounds == <<1024, 5120, 20480, 51200, 102400, 204800>>

\* the band of a size: the first whose upper bound is not below it, else 7
BandOf(size) ==
    IF size > UpperBounds[6] THEN 7
    ELSE Min({b \in 1..6 : size <= UpperBounds[b]})

\* C8: the result is the table entry of the band chosen by inclusive upper
\* bounds, lies in 0..100, is 100 at 1024 bytes, 10 and 75 at 300 KiB for
\* scales 1 and 9, and the ImageProcessor method returns the same value
C8_TableLookup ==
    jpeg_quality # -1 =>
      /\ jpeg_quality = TableOfBands[BandOf(file_size_bytes)][quality_scale]
      /\ jpeg_quality \in 0..100
      /\ file_size_bytes = 1024 => jpeg_quality = 100
      /\ (file_size_bytes = 300 * 1024 /\ quality_scale = 1) => jpeg_quality = 10
      /\ (file_size_bytes = 300 * 1024 /\ quality_scale = 9) => jpeg_quality = 75
      /\ ip_jpeg_quality = jpeg_quality

\* a size exactly on the bound of the 50 KiB band was looked up
C8_Witness ==
    /\ file_size_bytes = 51200
    /\ quality_scale = 5
    /\ jpeg_quality = 50
    /\ ip_jpeg_quality = 50

\* C9: for a fixed scale the quality does not rise as the size grows
C9_MonotoneInSize ==
    jpeg_quality # -1 =>
      \A size2 \in QSizes :
        file_size_bytes <= size2 =>
          jpeg_quality >= calculate_jpeg_quality(size2, quality_scale)

\* the quality of a size is above the quality of a larger size
C9_Witness ==
    /\ jpeg_quality # -1
    /\ \E size2 \in QSizes :
         /\ file_size_bytes < size2
         /\ jpeg_quality > calculate_jpeg_quality(size2, quality_scale)

\* C10: for a fixed size the quality does not rise as the scale grows, so that
\* scale 1 gives the highest quality
C10_MonotoneInScale ==
    jpeg_quality # -1 =>
      \A scale2 \in QScales :
        quality_scale < scale2 =>
          jpeg_quality >= calculate_jpeg_quality(file_size_bytes, scale2)

\* ------------------------------------------------------------------------
\* Properties of the size guard
\* ------------------------------------------------------------------------
\* the least integer not below a / b, for b > 0
CeilDiv(a, b) == (a + b - 1) \div b

\* C11 as stated: final_size is ceil(4/3 * compressed_size) + 100
C11_CeilOfFourThirds ==
    final_size # -1 => final_size = CeilDiv(4 * compressed_size, 3) + 100

\* C11: final_size is 4 * ceil(compressed_size / 3) + 100, the length of the
\* padded base64 text plus the overhead: final_size - 100 is the least
\* multiple of 4 that is not below 4/3 * compressed_size, and it equals
\* ceil(4/3 * compressed_size) exactly when compressed_size is a multiple of 3
C11_PaddedBase64Length ==
    final_size # -1 =>
      LET encoded == final_size - 100
      IN  /\ encoded = 4 * CeilDiv(compressed_size, 3)
          /\ encoded % 4 = 0
          /\ 3 * encoded >= 4 * compressed_size
          /\ 3 * (encoded - 4) < 4 * compressed_size
          /\ (encoded = CeilDiv(4 * compressed_size, 3))
               <=> (compressed_size % 3 = 0)

\* the guard was evaluated for a length that is not a multiple of 3
C11_Witness ==
    /\ compressed_size = 100
    /\ final_size = 236

\* the encoded footprint of the image reference i resolves to
Footprint(i) ==
    4 * CeilDiv(world[CleanedSource(matches[i].url)].data.jpeg_len, 3) + 100

\* reference i resolved to an image that was transcoded
Transcoded(i) ==
    LET source == CleanedSource(matches[i].url)
    IN  /\ source \in DOMAIN world
        /\ world[source].status = "ok"
        /\ world[source].data.image
        /\ world[source].data.len > 1024

\* the budget of the size guard in bytes
Budget == options.max_file_size_mb * 1024 * 1024

\* C12: when process_markdown has returned, a transcoded image whose encoded
\* footprint is over the budget is left as original text with its source in
\* non_embedded_resources, and one whose footprint is at or under the budget
\* is embedded, whatever the size of the source bytes
C12_GuardOnEncodedForm ==
    pc = "done" =>
      \A i \in 1..Len(matches) :
        Transcoded(i) =>
          IF Footprint(i) > Budget
          THEN /\ emitted[i] = matches[i].original_text
               /\ CleanedSource(matches[i].url) \in stats.non_embedded_resources
          ELSE /\ Rewritten(i)
               /\ CleanedSource(matches[i].url) \notin stats.non_embedded_resources

\* an image exactly at the budget was embedded although its source is larger
\* than the budget, and the image with the least footprint over the budget
\* was rejected although its source is far smaller
C12_Witness ==
    /\ pc = "done"
    /\ \E i, j \in 1..Len(matches) :
         /\ Transcoded(i) /\ Transcoded(j)
         /\ Footprint(i) = Budget
         /\ world[CleanedSource(matches[i].url)].data.len > Budget
         /\ Rewritten(i)
         /\ Footprint(j) > Budget /\ Footprint(j) <= Budget + 4
         /\ world[CleanedSource(matches[j].url)].data.len < Budget
         /\ emitted[j] = matches[j].original_text

\* ------------------------------------------------------------------------
\* Properties of the data URL
\* ------------------------------------------------------------------------
\* the MIME type a data URL declares: the text between "data:" and ";"
DeclaredMime(data_url) == SubSeq(data_url, 6, IndexFrom(data_url, 1, {";"}) - 1)

\* the base64 text of a data URL: the text after the first ","
PayloadOf(data_url) ==
    SubSeq(data_url, IndexFrom(data_url, 1, {","}) + 1, Len(data_url))

\* the format of encoded bytes: base64 of FF D8 FF starts with /9j (JPEG),
\* base64 of 89 50 4E starts with iVB (PNG)
FormatOfPayload(payload) ==
    IF StartsWith(payload, <<"/", "9", "j">>)
    THEN <<"i", "m", "a", "g", "e", "/", "j", "p", "e", "g">>
    ELSE IF StartsWith(payload, <<"i", "V", "B">>)
    THEN <<"i", "m", "a", "g", "e", "/", "p", "n", "g">>
    ELSE <<>>

\* C13: a definition line declares the format of the bytes it embeds: a
\* payload that was transcoded to JPEG, such as the decodable 50 KiB PNG of a
\* source named .png at scale 5, is declared as data:image/jpeg
C13_MimeMatchesBytes ==
    \A k \in 1..Len(embedded_data_by_id) :
      LET data_url == embedded_data_by_id[k][2]
      IN  FormatOfPayload(PayloadOf(data_url)) = <<"i", "m", "a", "g", "e", "/", "j", "p", "e", "g">>
            => DeclaredMime(data_url) = FormatOfPayload(PayloadOf(data_url))

\* ------------------------------------------------------------------------
\* Properties of the video check
\* ------------------------------------------------------------------------
\* reference i resolved to bytes that begin with a listed video signature
HoldsVideo(i) ==
    LET source == CleanedSource(matches[i].url)
    IN  /\ source \in DOMAIN world
        /\ world[source].status = "ok"
        /\ world[source].data.video

\* C14: bytes that begin with a listed video signature are never embedded,
\* whatever the extension of the source and the length of the bytes: when
\* process_markdown has returned the reference stands as its original text
\* and the source is in non_embedded_resources
C14_VideoNeverEmbedded ==
    pc = "done" =>
      \A i \in 1..Len(matches) :
        HoldsVideo(i) =>
          /\ emitted[i] = matches[i].original_text
          /\ CleanedSource(matches[i].url) \in stats.non_embedded_resources

\* ------------------------------------------------------------------------
\* Properties of the rewritten alt text
\* ------------------------------------------------------------------------
\* the index of the first pipe of text that no backslash precedes, 0 if none
FirstUnescapedPipe(text) ==
    LET at == {p \in 1..Len(text) :
                 text[p] = "|" /\ (p = 1 \/ text[p - 1] # "\\")}
    IN  IF at = {} THEN 0 ELSE Min(at)

\* text[from..] without the characters at the indices in drop
RECURSIVE Without(_, _, _)
Without(text, drop, from) ==
    IF from > Len(text) THEN <<>>
    ELSE (IF from \in drop THEN <<>> ELSE <<text[from]>>)
         \o Without(text, drop, from + 1)

\* the alt text the claim describes: the part before the first unescaped pipe
\* without its backslashes, then the rest without the backslash of each \|
ExpectedAlt(text) ==
    LET p == FirstUnescapedPipe(text)
        cut == IF p = 0 THEN Len(text) + 1 ELSE p
        backslashes == {k \in 1..(cut - 1) : text[k] = "\\"}
        escapes == {k \in cut..(Len(text) - 1) :
                      text[k] = "\\" /\ text[k + 1] = "|"}
    IN  Without(text, backslashes \cup escapes, 1)

\* C15: the rewritten alt text is the part before the first unescaped pipe
\* with every backslash removed, followed by the suffix from that pipe on
\* with each \| unescaped to |
C15_AltAndSuffix ==
    pc = "alt_done" => display_alt = ExpectedAlt(alt_text)

\* the alt text f\|f|f was rewritten to f|f|f
C15_Witness ==
    /\ pc = "alt_done"
    /\ alt_text = <<"f", "\\", "|", "f", "|", "f">>
    /\ display_alt = <<"f", "|", "f", "|", "f">>

\* ------------------------------------------------------------------------
\* Properties of the scanner
\* ------------------------------------------------------------------------
\* url denotes an embedded data URL, plain or percent-encoded
DenotesDataUrl(url) ==
    \/ StartsWith(url, <<"d", "a", "t", "a", ":", "i", "m", "a", "g", "e", "/">>)
    \/ StartsWith(url, <<"d", "a", "t", "a", ":", "i", "m", "a", "g", "e", "%", "2", "F">>)

\* C16: find_image_links returns no reference, of any style, whose source
\* denotes an embedded data URL, and such references are not counted as
\* skipped images
C16_NoEmbeddedSources ==
    /\ \A i \in 1..Len(matches) : ~ DenotesDataUrl(matches[i].url)
    /\ stats.skipped_images
         <= Cardinality({i \in 1..Len(matches) : ~ DenotesDataUrl(matches[i].url)})

\* C17: the matched text of every inline match lies within one line
C17_InlineOnOneLine ==
    \A i \in 1..Len(matches) :
      matches[i].style = "inline" => "\n" \notin Range(matches[i].original_text)

\* ------------------------------------------------------------------------
\* Properties of the placeholder ids and of the definitions block
\* ------------------------------------------------------------------------
\* the id the k-th assignment of a run is expected to give, for k < 10
ExpectedId(k) ==
    <<"m", "i", "e", "-", "i", "m", "g", "-">>
    \o <<(<<"1", "2", "3", "4", "5", "6", "7", "8", "9">>)[k]>>

\* the index of the first reference that has the key of reference i
FirstWithKey(i) ==
    Min({j \in 1..i : SharedKey(matches[j]) = SharedKey(matches[i])})

\* the number of keys that were embedded up to the first reference with the
\* key of reference i
RankOfKey(i) ==
    Cardinality({SharedKey(matches[j]) : j \in {q \in 1..FirstWithKey(i) : Rewritten(q)}})

\* the lines "[id]: data URL" for entries k.. of the assignments, in order
RECURSIVE LinesFrom(_, _)
LinesFrom(by_id, k) ==
    IF k > Len(by_id) THEN <<>>
    ELSE <<"[">> \o by_id[k][1] \o <<"]", ":", " ">> \o by_id[k][2] \o <<"\n">>
         \o LinesFrom(by_id, k + 1)

\* C18: the ids assigned in a run are mie-img-1, mie-img-2, ... in the order
\* the keys are first embedded, pairwise distinct and without gaps; if an id
\* was assigned the output ends with a blank line, the marker comment and one
\* line [id]: data:<mime>;base64,<payload> per id in that order; if none was
\* assigned nothing is appended
C18_IdsAndBlock ==
    pc = "done" =>
      /\ \A k \in 1..Len(embedded_data_by_id) :
           /\ embedded_data_by_id[k][1] = ExpectedId(k)
           /\ StartsWith(embedded_data_by_id[k][2], <<"d", "a", "t", "a", ":">>)
           /\ Contains(embedded_data_by_id[k][2], <<";", "b", "a", "s", "e", "6", "4", ",">>)
           /\ DefinitionLineCount(AppendedBlock(output), ExpectedId(k)) = 1
      /\ \A i \in 1..Len(matches) :
           Rewritten(i) => PlaceholderOf(emitted[i]) = ExpectedId(RankOfKey(i))
      /\ Cardinality(LinesStarting(AppendedBlock(output), <<"[">>))
           = Len(embedded_data_by_id)
      /\ IF embedded_data_by_id # <<>>
         THEN EndsWith(output, <<"\n", "\n">> \o MarkerLine
                               \o LinesFrom(embedded_data_by_id, 1))
         ELSE /\ ~ Contains(output, MarkerLine)
              /\ \A i \in 1..Len(matches) : ~ Rewritten(i)

\* two ids were assigned in one run
C18_Witness ==
    /\ pc = "done"
    /\ Len(embedded_data_by_id) >= 2
    /\ \E i \in 1..Len(matches) : PlaceholderOf(emitted[i]) = ExpectedId(2)

\* C19: two references that are not reference-style and whose sources are
\* equal after the dimension suffix and the surrounding whitespace are
\* removed have one key: when process_markdown has returned, both are
\* rewritten to the same id or neither is rewritten
C19_KeyOnCleanedSource ==
    pc = "done" =>
      \A i, j \in 1..Len(matches) :
        (/\ matches[i].style # "reference"
         /\ matches[j].style # "reference"
         /\ CleanedSource(matches[i].url) = CleanedSource(matches[j].url))
        => /\ Rewritten(i) <=> Rewritten(j)
           /\ Rewritten(i) => PlaceholderOf(emitted[i]) = PlaceholderOf(emitted[j])

\* ------------------------------------------------------------------------
\* Properties of main
\* ------------------------------------------------------------------------
\* the documents main tried to read: the inputs that are files, or standard
\* input when no input was named
DocumentsRead ==
    IF input_files = <<>> THEN {stdin_kind}
    ELSE {input_files[k] : k \in {q \in 1..Len(input_files) : input_files[q].exists}}

\* reading document d failed, or its result could not be written to the
\* destination of the mode
Fatal(d) ==
    \/ ~ d.readable
    \/ ~ d.write_ok
    \/ mode = "backup" /\ input_files # <<>> /\ ~ d.backup_ok

C26_BackupBeforeOverwrite ==
    mode = "backup" /\ input_files # <<>> =>
      /\ \A k \in overwritten : input_files[k].backup_ok
      /\ \A j \in 1..Len(processed_file_details) :
           (input_files[files_to_process[j]].readable
            /\ ~ input_files[files_to_process[j]].backup_ok)
           => /\ files_to_process[j] \notin overwritten
              /\ processed_file_details[j] = "ERROR"
              /\ exit_code # 0
      /\ main_pc = "returned" /\ files_to_process # <<>>
         => /\ Len(processed_file_details) = Len(files_to_process)
            /\ main_result = exit_code

\* main returned 1 with --backup after the backup of the first file failed and
\* the second file was backed up and overwritten
C26_Witness ==
    /\ mode = "backup"
    /\ main_pc = "returned"
    /\ main_result = 1
    /\ Len(files_to_process) = 2
    /\ input_files[files_to_process[1]].readable
    /\ ~ input_files[files_to_process[1]].backup_ok
    /\ input_files[files_to_process[1]].write_ok
    /\ overwritten = {files_to_process[2]}
    /\ processed_file_details = <<"ERROR", "OK">>

\* ------------------------------------------------------------------------
\* Properties of compress_to_jpeg
\* ------------------------------------------------------------------------
\* the quality computed for the call is 100, the input has at most 1024 bytes
\* and neither max_width nor max_height is set
SmallAndUnsized ==
    /\ calculate_jpeg_quality(compress_args.input_data.len,
                              compress_args.quality_scale) = 100
    /\ compress_args.input_data.len <= 1024
    /\ compress_args.max_width = 0
    /\ compress_args.max_height = 0

\* the call returned its input
ReturnedInput ==
    /\ ~ compress_return.compressed_data.none
    /\ compress_return.compressed_data.len = compress_args.input_data.len
    /\ compress_return.compressed_data.b64 = compress_args.input_data.b64

\* C22: compress_to_jpeg returns its input, with quality 100 and
\* compressed_size = original_size, exactly when the computed quality is 100,
\* the input has at most 1024 bytes and no dimension is set; any other
\* successful result is the JPEG encoding at the quality computed from the
\* size of the input
C22_FastPathExactly ==
    compress_return # <<>> =>
      /\ SmallAndUnsized <=> ReturnedInput
      /\ ReturnedInput =>
           /\ compress_return.jpeg_quality = 100
           /\ compress_return.original_size = compress_args.input_data.len
           /\ compress_return.compressed_size = compress_return.original_size
      /\ (~ SmallAndUnsized /\ ~ compress_return.compressed_data.none) =>
           /\ compress_return.compressed_data.b64
                = compress_args.input_data.jpeg_b64
           /\ compress_return.compressed_size
                = compress_args.input_data.jpeg_len
           /\ compress_return.jpeg_quality
                = calculate_jpeg_quality(compress_args.input_data.len,
                                         compress_args.quality_scale)

\* an image of exactly 1024 bytes came back as it was, and so would not have
\* with a width set
C22_Witness ==
    /\ compress_return # <<>>
    /\ compress_args.input_data.len = 1024
    /\ SmallAndUnsized
    /\ ReturnedInput

\* reference i resolved to bytes the codec cannot decode and that carry no
\* video signature
HoldsUndecodable(i) ==
    LET source == CleanedSource(matches[i].url)
    IN  /\ source \in DOMAIN world
        /\ world[source].status = "ok"
        /\ ~ world[source].data.image
        /\ ~ world[source].data.video

\* C23: bytes that cannot be decoded as an image are never embedded, whatever
\* their length: when process_markdown has returned the reference stands as
\* its original text and the source is in non_embedded_resources
C23_UndecodableNeverEmbedded ==
    pc = "done" =>
      \A i \in 1..Len(matches) :
        HoldsUndecodable(i) =>
          /\ emitted[i] = matches[i].original_text
          /\ CleanedSource(matches[i].url) \in stats.non_embedded_resources

\* ------------------------------------------------------------------------
\* Properties of the second pass
\* ------------------------------------------------------------------------
\* C25: the second pass copies the text outside the spans unchanged, once and
\* in order, leading and trailing text and whitespace included: the returned
\* text without the appended block is the input with each span replaced by
\* what the second pass emitted for it (the line breaks before the marker
\* comment count for the block or for the text, whichever fits)
C25_TextOutsideSpansKept ==
    pc = "done" =>
      LET expected == SpansReplaced(markdown, matches, emitted, Len(matches))
      IN  IF embedded_data_by_id = <<>> THEN output = expected
          ELSE expected \in {BodyOf(output),
                             BodyOf(output) \o <<"\n">>,
                             BodyOf(output) \o <<"\n", "\n">>}

\* ------------------------------------------------------------------------
\* Properties of the statistics
\* ------------------------------------------------------------------------
\* the sources of the references that were rewritten
EmbeddedSources ==
    {CleanedSource(matches[i].url) : i \in {j \in 1..Len(matches) : Rewritten(j)}}

\* the length of what is embedded for an image: its JPEG encoding, or the
\* image itself when it has at most 1024 bytes
EmbeddedLength(data) == IF data.len <= 1024 THEN data.len ELSE data.jpeg_len

\* the sum of f[x] over the elements x of set
RECURSIVE SumOver(_, _)
SumOver(f, set) ==
    IF set = {} THEN 0
    ELSE LET x == CHOOSE y \in set : TRUE
         IN  f[x] + SumOver(f, set \ {x})

\* C29: the returned statistics describe the embedded images only:
\* images_processed is the number of definition lines appended, and
\* total_image_size and total_compressed_size are the sums of the original and
\* of the embedded lengths of the images that were embedded, an image rejected
\* by the size guard adding to neither
C29_StatsOfEmbeddedOnly ==
    pc = "done" =>
      /\ stats.images_processed
           = Cardinality(LinesStarting(AppendedBlock(output), <<"[">>))
      /\ stats.total_image_size
           = SumOver([s \in EmbeddedSources |-> world[s].data.len],
                     EmbeddedSources)
      /\ stats.total_compressed_size
           = SumOver([s \in EmbeddedSources |-> EmbeddedLength(world[s].data)],
                     EmbeddedSources)

\* ------------------------------------------------------------------------
\* Properties of the placeholder ids
\* ------------------------------------------------------------------------
\* C28: an id assigned by process_markdown is no label the input defines, and
\* the returned text holds no two definition lines with the label of an
\* assigned id
C28_FreshIds ==
    pc = "done" =>
      \A k \in 1..Len(embedded_data_by_id) :
        /\ DefinitionLineCount(markdown, embedded_data_by_id[k][1]) = 0
        /\ DefinitionLineCount(output, embedded_data_by_id[k][1]) <= 1

\* ------------------------------------------------------------------------
\* Properties of the resolution of a local source
\* ------------------------------------------------------------------------
\* the candidates for a local source: the path verbatim, the path
\* percent-decoded (without trailing separators, quotes and whitespace), and
\* the decoded path without a leading ./ joined to the base path
VerbatimPath == resolve_args
DecodedPath == unquote(RStripChars(resolve_args, PathTrailers))
JoinedPath ==
    IF options.base_path = <<>> THEN <<>>
    ELSE path_join(options.base_path,
                   IF StartsWith(DecodedPath, <<".", "/">>)
                   THEN SubSeq(DecodedPath, 3, Len(DecodedPath))
                   ELSE DecodedPath)

\* path is a file of the call
Exists(path) ==
    path # <<>> /\ path \in DOMAIN world /\ world[path].status # "absent"

\* the first candidate of order that exists, <<>> when none does
FirstExisting(order) ==
    IF \A k \in 1..Len(order) : ~ Exists(order[k]) THEN <<>>
    ELSE order[CHOOSE k \in 1..Len(order) :
                 Exists(order[k]) /\ \A j \in 1..(k - 1) : ~ Exists(order[j])]

\* the file the call read, <<>> when it read none
FileRead ==
    IF resolve_return.fetched = <<>> THEN <<>> ELSE resolve_return.fetched[1]

\* Yarle mode is on and the source holds a resource marker
YarleCase ==
    /\ options.yarle_mode
    /\ \/ Contains(resolve_args, <<".", "/", "_", "r", "e", "s", "o", "u", "r", "c", "e", "s", "/">>)
       \/ Contains(resolve_args, <<".", "r", "e", "s", "o", "u", "r", "c", "e", "s", "/">>)

\* without a file the source is recorded and the reference is unresolved
UnresolvedIsRecorded ==
    FileRead = <<>> =>
      /\ resolve_return.data_url = <<>>
      /\ resolve_return.stats.non_embedded_resources = {resolve_args}

\* C24 as stated: a local source is read from the first existing one of the
\* path verbatim, the decoded path and the path joined to the base path, with
\* Yarle mode as without; without a file it is recorded as non-embedded
C24_SameOrderWithYarle ==
    resolve_return # <<>> =>
      /\ FileRead = FirstExisting(<<VerbatimPath, DecodedPath, JoinedPath>>)
      /\ UnresolvedIsRecorded

\* C24: a local source is read from the first existing one of the path
\* verbatim, the decoded path and the decoded path joined to the base path;
\* with Yarle mode on and a resource marker in the source the decoded and the
\* joined path come before the verbatim one; without a file the source is
\* recorded as non-embedded and the reference is unresolved
C24_ResolutionOrder ==
    resolve_return # <<>> =>
      /\ FileRead = IF YarleCase
                    THEN FirstExisting(<<DecodedPath, JoinedPath, VerbatimPath>>)
                    ELSE FirstExisting(<<VerbatimPath, DecodedPath, JoinedPath>>)
      /\ UnresolvedIsRecorded

\* with Yarle mode on the decoded path was read although the verbatim path
\* exists as well
C24_Witness ==
    /\ resolve_return # <<>>
    /\ YarleCase
    /\ VerbatimPath # DecodedPath
    /\ Exists(VerbatimPath)
    /\ Exists(DecodedPath)
    /\ FileRead = DecodedPath
    /\ resolve_return.data_url # <<>>

\* ------------------------------------------------------------------------
\* Properties of transform
\* ------------------------------------------------------------------------
\* the indices at which the marker comment stands in a text
MarkersIn(document) ==
    {p \in 1..Len(document) : StartsWithAt(document, p, MoveMarker)}

\* C27: running transform on its own result changes nothing,
\* transform(transform(x)) = transform(x), and the result holds the marker
\* comment at most once
C27_TransformIdempotent ==
    move_pc = "twice" =>
      /\ retransformed = transformed
      /\ Cardinality(MarkersIn(transformed)) <= 1

\* the indices at which a line of a text starts
LineStarts(document) ==
    {p \in 1..Len(document) : p = 1 \/ document[p - 1] = "\n"}

\* the line of a text that starts at index p, without its line break
LineAt(document, p) ==
    SubSeq(document, p, IndexFrom(document, p, {"\n"}) - 1)

\* a line is a reference definition: [label]: target
IsDefinition(line) ==
    /\ StartsWith(line, <<"[">>)
    /\ IndexFrom(line, 1, {"]"}) > 2
    /\ StartsWithAt(line, IndexFrom(line, 1, {"]"}), <<"]", ":", " ">>)
    /\ IndexFrom(line, 1, {"]"}) + 3 <= Len(line)

\* the reference definition lines of a text
DefinitionsOf(document) ==
    {LineAt(document, p) : p \in {q \in LineStarts(document) :
                                    IsDefinition(LineAt(document, q))}}

\* the label of a reference definition line
LabelOf(line) == SubSeq(line, 2, IndexFrom(line, 1, {"]"}) - 1)

\* the ids transform assigned: the labels of the lines it appended after the
\* marker comment
AssignedIds ==
    IF transformed = source_text \/ MarkersIn(transformed) = {} THEN {}
    ELSE LET last == CHOOSE p \in MarkersIn(transformed) :
                       \A q \in MarkersIn(transformed) : q <= p
         IN  {LabelOf(line) :
                line \in DefinitionsOf(SubSeq(transformed, last + Len(MoveMarker) + 1,
                                              Len(transformed)))}

\* C30: transform loses no definition and reuses no label: every reference
\* definition line of the input is a line of the output, and no id it
\* assigns is a label the input defines
C30_DefinitionsKept ==
    move_pc \in {"once", "twice"} =>
      /\ DefinitionsOf(source_text) \subseteq DefinitionsOf(transformed)
      /\ AssignedIds \cap {LabelOf(line) : line \in DefinitionsOf(source_text)} = {}

\* the inline data images of a text from index from on, in order, as
\* [at, stop, alt, src]
RECURSIVE DataImagesFrom(_, _)
DataImagesFrom(document, from) ==
    IF {p \in DataImageStarts(document) : p >= from} = {} THEN <<>>
    ELSE LET p == Min({q \in DataImageStarts(document) : q >= from})
             a == IndexFrom(document, p + 2, {"]"})
             e == DataImageEnd(document, p)
         IN  <<[at |-> p, stop |-> e, alt |-> SubSeq(document, p + 2, a - 1),
                src |-> SubSeq(document, a + 2, e - 1)]>>
             \o DataImagesFrom(document, e + 1)

\* the sources of images[1..k] without repetition, in order of first occurrence
RECURSIVE DistinctSources(_, _)
DistinctSources(images, k) ==
    IF k = 0 THEN <<>>
    ELSE LET before == DistinctSources(images, k - 1)
         IN  IF \E j \in 1..Len(before) : before[j] = images[k].src
             THEN before
             ELSE Append(before, images[k].src)

\* the ids of a block that consists of one line [id]: src per source of
\* srcs[k..], in order; <<"?">> is appended when the block has another form
RECURSIVE IdsOfBlock(_, _, _)
IdsOfBlock(block, srcs, k) ==
    IF k > Len(srcs) THEN (IF block = <<>> THEN <<>> ELSE << <<"?">> >>)
    ELSE LET shut == IndexFrom(block, 1, {"]"})
             rest == <<"]", ":", " ">> \o srcs[k] \o <<"\n">>
         IN  IF StartsWith(block, <<"[">>) /\ shut > 2
                /\ StartsWithAt(block, shut, rest)
             THEN <<SubSeq(block, 2, shut - 1)>>
                  \o IdsOfBlock(SubSeq(block, shut + Len(rest), Len(block)),
                                srcs, k + 1)
             ELSE << <<"?">> >>

\* the smallest index >= from at which piece stands in document, 0 when it
\* does not
FindFrom(document, piece, from) ==
    IF \A p \in from..Len(document) : ~ StartsWithAt(document, p, piece) THEN 0
    ELSE Min({p \in from..Len(document) : StartsWithAt(document, p, piece)})

\* the texts ![alt][id] for images[k..] stand in document from index from on,
\* one after the other; the id is the one at the index of the image's source
\* in srcs
RECURSIVE ReplacementsInOrder(_, _, _, _, _, _)
ReplacementsInOrder(document, images, srcs, ids, k, from) ==
    IF k > Len(images) THEN TRUE
    ELSE LET n == CHOOSE j \in 1..Len(srcs) : srcs[j] = images[k].src
             piece == <<"!", "[">> \o images[k].alt \o <<"]", "[">> \o ids[n]
                      \o <<"]">>
             p == FindFrom(document, piece, from)
         IN  /\ p # 0
             /\ ReplacementsInOrder(document, images, srcs, ids, k + 1,
                                    p + Len(piece))

\* C21: transform returns a text without an inline data image unchanged;
\* otherwise the result ends with the marker comment and one line [id]: src
\* per distinct data URI in the order of first occurrence, the ids are
\* pairwise distinct, and before the marker comment stands ![alt][id] for
\* every inline data image of the input, in order, with the id of its URI
C21_TransformContract ==
    move_pc \in {"once", "twice"} =>
      LET images == DataImagesFrom(source_text, 1)
          srcs == DistinctSources(images, Len(images))
          last == CHOOSE p \in MarkersIn(transformed) :
                    \A q \in MarkersIn(transformed) : q <= p
          ids == IdsOfBlock(SubSeq(transformed, last + Len(MoveMarker) + 1,
                                   Len(transformed)), srcs, 1)
      IN  IF images = <<>> THEN transformed = source_text
          ELSE /\ MarkersIn(transformed) # {}
               /\ Len(ids) = Len(srcs)
               /\ \A j, k \in 1..Len(ids) : ids[j] = ids[k] => j = k
               /\ ReplacementsInOrder(SubSeq(transformed, 1, last - 1), images,
                                      srcs, ids, 1, 1)

====
